---------------------------- MODULE Spec2Model ----------------------------
(***************************************************************************)
(* A model of the PyArmor deployment tool (src/third_version.py):          *)
(*   - the unit-file transformer of ServiceConfigTab (parse_service,       *)
(*     parse_service_content, _detect_project_folder,                      *)
(*     _calculate_new_working_dir, generate_new_service_content),          *)
(*   - the worker threads EncryptionWorker and ServiceConfigWorker, as     *)
(*     src/third_version.py and src/2_second_cut.py have them,             *)
(*   - SSHConnection and RemoteExecutor,                                   *)
(*   - the main window PyArmorDeployApp: its connection dialog, the start  *)
(*     and finish handlers of the two tabs, and closeEvent.                *)
(* Texts are TLA+ strings; the Python string methods the code uses are     *)
(* operators computed character by character.                              *)
(***************************************************************************)
EXTENDS Integers, Sequences, FiniteSets, TLC

(***************************************************************************)
(* Python values                                                           *)
(***************************************************************************)
\* Python's None and a present value: an optional value is a sequence of
\* length 0 or 1, so that None differs from the empty string.
None == <<>>

Some(v) == <<v>>

(***************************************************************************)
(* Python string methods                                                   *)
(***************************************************************************)
\* The characters str.strip() removes, of those that occur in the texts here.
Whitespace == {" ", "\t", "\r", "\n"}

\* s.startswith(p)
StartsWith(s, p) == Len(s) >= Len(p) /\ SubSeq(s, 1, Len(p)) = p

\* s.endswith(p)
EndsWith(s, p) == Len(s) >= Len(p) /\ SubSeq(s, Len(s) - Len(p) + 1, Len(s)) = p

\* p in s
Contains(s, p) == \E i \in 1..(Len(s) - Len(p) + 1) : SubSeq(s, i, i + Len(p) - 1) = p

RECURSIVE LStrip(_)
\* s.lstrip()
LStrip(s) ==
    IF s # "" /\ SubSeq(s, 1, 1) \in Whitespace
    THEN LStrip(SubSeq(s, 2, Len(s)))
    ELSE s

RECURSIVE RStrip(_)
\* s.rstrip()
RStrip(s) ==
    IF s # "" /\ SubSeq(s, Len(s), Len(s)) \in Whitespace
    THEN RStrip(SubSeq(s, 1, Len(s) - 1))
    ELSE s

\* s.strip()
Strip(s) == RStrip(LStrip(s))

\* The positions of the one-character separator sep in s.
SepPositions(s, sep) == {i \in 1..Len(s) : SubSeq(s, i, i) = sep}

RECURSIVE SplitAt(_, _, _)
\* The pieces of s from position `from` on, cut at the positions seps.
SplitAt(s, seps, from) ==
    IF seps = {} THEN <<SubSeq(s, from, Len(s))>>
    ELSE LET first == CHOOSE i \in seps : \A j \in seps : i <= j
         IN <<SubSeq(s, from, first - 1)>> \o SplitAt(s, seps \ {first}, first + 1)

\* s.split(sep) for a one-character separator: the pieces between the
\* separators, always at least one piece.
Split(s, sep) == SplitAt(s, SepPositions(s, sep), 1)

RECURSIVE Join(_, _)
\* sep.join(parts)
Join(parts, sep) ==
    IF parts = <<>> THEN ""
    ELSE IF Len(parts) = 1 THEN parts[1]
         ELSE parts[1] \o sep \o Join(Tail(parts), sep)

\* s.split('=', 1)[1] for a line that contains '=': the text after the first '='.
AfterFirstEquals(s) ==
    LET i == CHOOSE k \in 1..Len(s) :
                 /\ SubSeq(s, k, k) = "="
                 /\ \A j \in 1..(k - 1) : SubSeq(s, j, j) # "="
    IN SubSeq(s, i + 1, Len(s))

\* s.replace(old, new), old not empty: every occurrence, left to right.
\* Replaced[t] is the result for the text t that is left after an occurrence.
Replace(s, old, new) ==
    LET Replaced[t \in STRING] ==
            LET hits == {i \in 1..(Len(t) - Len(old) + 1) :
                            SubSeq(t, i, i + Len(old) - 1) = old}
            IN IF hits = {} THEN t
               ELSE LET i == CHOOSE k \in hits : \A j \in hits : k <= j
                    IN SubSeq(t, 1, i - 1) \o new
                       \o Replaced[SubSeq(t, i + Len(old), Len(t))]
    IN Replaced[s]

\* os.path.join(a, b) of posixpath: an absolute b discards a.
PathJoin(a, b) ==
    IF StartsWith(b, "/") THEN b
    ELSE IF a = "" \/ EndsWith(a, "/") THEN a \o b
         ELSE a \o "/" \o b

(***************************************************************************)
(* ServiceConfigTab: the unit-file transformer                             *)
(***************************************************************************)
\* self.current_service_config = {}: every .get() of the code yields its
\* default, which is '' (or []) for the fields the transformer reads.
EmptyConfig ==
    [WorkingDirectory |-> "", ExecStart |-> "", Environment |-> <<>>,
     User |-> "", Group |-> ""]

\* One iteration of the loop of parse_service_content on one line.
ParseLine(cfg, raw) ==
    LET line == Strip(raw) IN
    IF StartsWith(line, "WorkingDirectory=")
    THEN [cfg EXCEPT !.WorkingDirectory = AfterFirstEquals(line)]
    ELSE IF StartsWith(line, "ExecStart=")
    THEN [cfg EXCEPT !.ExecStart = AfterFirstEquals(line)]
    ELSE IF StartsWith(line, "Environment=")
    THEN [cfg EXCEPT !.Environment = Append(@, AfterFirstEquals(line))]
    ELSE IF StartsWith(line, "User=")
    THEN [cfg EXCEPT !.User = AfterFirstEquals(line)]
    ELSE IF StartsWith(line, "Group=")
    THEN [cfg EXCEPT !.Group = AfterFirstEquals(line)]
    ELSE cfg

RECURSIVE ParseLines(_, _)
ParseLines(cfg, lines) ==
    IF lines = <<>> THEN cfg
    ELSE ParseLines(ParseLine(cfg, Head(lines)), Tail(lines))

\* parse_service_content(content): the new current_service_config.
ParseServiceContent(content) == ParseLines(EmptyConfig, Split(content, "\n"))

\* item.startswith('pyarmor_runtime')
IsRuntimeEntry(item) == StartsWith(item, "pyarmor_runtime")

\* A detection that keeps the last candidate of the listing.
DetectProjectFolderLast(entries) ==
    LET hits == {i \in 1..Len(entries) :
                    entries[i].dir /\ ~IsRuntimeEntry(entries[i].name)}
    IN IF hits = {} THEN None
       ELSE Some(entries[CHOOSE i \in hits : \A j \in hits : i >= j].name)

\* _detect_project_folder: entries is list_dir(dist_folder) in its order, each
\* entry with the answer of is_dir(os.path.join(dist_folder, name)).
DetectProjectFolder(entries) ==
    LET hits == {i \in 1..Len(entries) :
                    entries[i].dir /\ ~IsRuntimeEntry(entries[i].name)}
    IN IF hits = {} THEN None
       ELSE Some(entries[CHOOSE i \in hits : \A j \in hits : i <= j].name)

\* The index of the first part equal to project_folder, 0 for project_idx = None.
ProjectIdx(parts, project_folder) ==
    LET hits == {i \in 1..Len(parts) : parts[i] = project_folder}
    IN IF hits = {} THEN 0 ELSE CHOOSE i \in hits : \A j \in hits : i <= j

\* _calculate_new_working_dir(dist_folder) with the config and listing it reads.
CalculateNewWorkingDir(dist_folder, entries, cfg) ==
    LET found == DetectProjectFolder(entries) IN
    IF found = None \/ found = Some("") THEN dist_folder
    ELSE LET project_folder == found[1]
             base_path == PathJoin(dist_folder, project_folder)
             original_wd == cfg.WorkingDirectory
             original_parts == Split(Replace(original_wd, "\\", "/"), "/")
             project_idx == ProjectIdx(original_parts, project_folder)
         IN IF original_wd = "" THEN base_path
            ELSE IF project_idx # 0 /\ project_idx < Len(original_parts)
                 THEN PathJoin(base_path,
                               Join(SubSeq(original_parts, project_idx + 1,
                                           Len(original_parts)), "/"))
                 ELSE base_path

\* f'Environment="PYTHONPATH={python_path}"'
PythonPathLine(python_path) == "Environment=\"PYTHONPATH=" \o python_path \o "\""

\* stripped.startswith('[') and stripped.endswith(']')
IsSectionHeader(stripped) == StartsWith(stripped, "[") /\ EndsWith(stripped, "]")

\* stripped.startswith('Environment=') and 'PYTHONPATH' in stripped
IsPythonPathLine(stripped) ==
    StartsWith(stripped, "Environment=") /\ Contains(stripped, "PYTHONPATH")

\* The loop state of generate_new_service_content before the first line.
LoopStart == [new_lines |-> <<>>, pythonpath_added |-> FALSE,
              in_service_section |-> FALSE]

\* A variant of HeaderStep that adds no PYTHONPATH line when the [Service]
\* section ends.
HeaderStepNoInject(st, line, python_path) ==
    IF Strip(line) = "[Service]"
    THEN [st EXCEPT !.in_service_section = TRUE, !.new_lines = Append(@, line)]
    ELSE [st EXCEPT !.in_service_section = FALSE, !.new_lines = Append(@, line)]

\* The branch of the loop for a line that is a section header.
HeaderStep(st, line, python_path) ==
    IF Strip(line) = "[Service]"
    THEN [st EXCEPT !.in_service_section = TRUE, !.new_lines = Append(@, line)]
    ELSE [new_lines |->
              (IF st.in_service_section /\ ~st.pythonpath_added
               THEN Append(st.new_lines, PythonPathLine(python_path))
               ELSE st.new_lines) \o <<line>>,
          pythonpath_added |-> st.pythonpath_added \/ st.in_service_section,
          in_service_section |-> FALSE]

\* A variant of KeepLine that appends the stripped line.
KeepLineStripped(st, line) == [st EXCEPT !.new_lines = Append(@, Strip(line))]

\* A variant of KeepLine that writes the best-guess ExecStart of the fallback
\* in place of an ExecStart line.
KeepLineExecGuess(st, line) ==
    [st EXCEPT !.new_lines =
        Append(@, IF StartsWith(Strip(line), "ExecStart=")
                  THEN "ExecStart=/usr/bin/python3 main.py"
                  ELSE line)]

\* new_lines.append(line): the line is kept as it is.
KeepLine(st, line) == [st EXCEPT !.new_lines = Append(@, line)]

\* A variant of ReplacePythonPath that leaves pythonpath_added as it was.
ReplacePythonPathNoFlag(st, python_path) ==
    [st EXCEPT !.new_lines = Append(@, PythonPathLine(python_path))]

\* The branch for an Environment line that holds PYTHONPATH.
ReplacePythonPath(st, python_path) ==
    [st EXCEPT !.new_lines = Append(@, PythonPathLine(python_path)),
               !.pythonpath_added = TRUE]

\* The loop without the branch for a Group line.
DirectiveStepGroupKept(st, line, new_working_dir, python_path, user) ==
    LET stripped == Strip(line) IN
    IF StartsWith(stripped, "WorkingDirectory=")
    THEN [st EXCEPT !.new_lines = Append(@, "WorkingDirectory=" \o new_working_dir)]
    ELSE IF StartsWith(stripped, "User=") /\ user # ""
    THEN [st EXCEPT !.new_lines = Append(@, "User=" \o user)]
    ELSE IF IsPythonPathLine(stripped)
    THEN ReplacePythonPath(st, python_path)
    ELSE KeepLine(st, line)

\* The branches of the loop for a line that is no section header.
DirectiveStep(st, line, new_working_dir, python_path, user) ==
    LET stripped == Strip(line) IN
    IF StartsWith(stripped, "WorkingDirectory=")
    THEN [st EXCEPT !.new_lines = Append(@, "WorkingDirectory=" \o new_working_dir)]
    ELSE IF StartsWith(stripped, "User=") /\ user # ""
    THEN [st EXCEPT !.new_lines = Append(@, "User=" \o user)]
    ELSE IF StartsWith(stripped, "Group=") /\ user # ""
    THEN [st EXCEPT !.new_lines = Append(@, "Group=" \o user)]
    ELSE IF IsPythonPathLine(stripped)
    THEN ReplacePythonPath(st, python_path)
    ELSE KeepLine(st, line)

\* One iteration of the loop of generate_new_service_content.
RewriteLine(st, line, new_working_dir, python_path, user) ==
    IF Strip(line) = "[Service]" \/ IsSectionHeader(Strip(line))
    THEN HeaderStep(st, line, python_path)
    ELSE DirectiveStep(st, line, new_working_dir, python_path, user)

RECURSIVE RewriteLines(_, _, _, _, _)
RewriteLines(st, lines, new_working_dir, python_path, user) ==
    IF lines = <<>> THEN st
    ELSE RewriteLines(RewriteLine(st, Head(lines), new_working_dir, python_path, user),
                      Tail(lines), new_working_dir, python_path, user)

RECURSIVE InjectAfterService(_, _)
\* The second loop: the PYTHONPATH line after every '[Service]' line.
InjectAfterService(new_lines, python_path) ==
    IF new_lines = <<>> THEN <<>>
    ELSE (IF Strip(Head(new_lines)) = "[Service]"
          THEN <<Head(new_lines), PythonPathLine(python_path)>>
          ELSE <<Head(new_lines)>>)
         \o InjectAfterService(Tail(new_lines), python_path)

\* _generate_fallback_service_content(working_dir, python_path, user)
GenerateFallbackServiceContent(service_name, working_dir, python_path, user) ==
    Join(<<"[Unit]",
           "Description=Service for " \o Replace(service_name, ".service", ""),
           "After=network.target",
           "",
           "[Service]",
           "User=" \o user,
           "Group=" \o user,
           PythonPathLine(python_path),
           "Environment=\"PYTHONUNBUFFERED=1\"",
           "WorkingDirectory=" \o working_dir,
           "ExecStart=/usr/bin/python3 main.py",
           "Restart=always",
           "RestartSec=5",
           "StandardOutput=journal",
           "StandardError=journal",
           "",
           "[Install]",
           "WantedBy=multi-user.target",
           "">>, "\n")

\* not original_content or original_content.startswith('Could not read')
\* or original_content.startswith('Error')
UsesFallback(original_content) ==
    \/ original_content = ""
    \/ StartsWith(original_content, "Could not read")
    \/ StartsWith(original_content, "Error")

\* A variant of RewriteServiceContent that ends the text with a newline.
RewriteServiceContentNewline(original_content, new_working_dir, python_path, user) ==
    LET st == RewriteLines(LoopStart, Split(original_content, "\n"),
                           new_working_dir, python_path, user)
        new_lines == IF ~st.pythonpath_added
                     THEN InjectAfterService(st.new_lines, python_path)
                     ELSE st.new_lines
    IN Join(new_lines, "\n") \o "\n"

\* The non-fallback path of generate_new_service_content.
RewriteServiceContent(original_content, new_working_dir, python_path, user) ==
    LET st == RewriteLines(LoopStart, Split(original_content, "\n"),
                           new_working_dir, python_path, user)
        new_lines == IF ~st.pythonpath_added
                     THEN InjectAfterService(st.new_lines, python_path)
                     ELSE st.new_lines
    IN Join(new_lines, "\n")

\* generate_new_service_content() with the widget texts and listing it reads.
GenerateNewServiceContent(original_content, service_name, dist_folder, user, entries, cfg) ==
    LET new_working_dir == CalculateNewWorkingDir(dist_folder, entries, cfg)
        python_path == dist_folder
    IN IF UsesFallback(original_content)
       THEN GenerateFallbackServiceContent(service_name, new_working_dir,
                                           python_path, user)
       ELSE RewriteServiceContent(original_content, new_working_dir,
                                  python_path, user)

(***************************************************************************)
(* Bounds and input sets                                                   *)
(***************************************************************************)
\* The longest unit file, in lines.
MaxLines == 3

\* The number of times Apply is pressed in one behaviour.
MaxApply == 2

\* The deepest original WorkingDirectory, in path components.
MaxDepth == 3

\* The lines a unit file on the target is made of: section headers, directives
\* the tool does not recognise (one of them indented), and recognised
\* directives, not all written the way the tool writes them.
LinePool ==
    {"[Service]", "[Install]",
     "ExecStart=/srv/app/venv/bin/python main.py",
     "\tRestartSec=5",
     "WorkingDirectory=/srv/app/api",
     "User=root",
     "Group=www",
     "Environment=PYTHONPATH=/opt/dist"}

\* The elements of a sequence.
Range(seq) == {seq[i] : i \in 1..Len(seq)}

RECURSIVE LineSeqs(_)
\* The sequences of at most n different lines of the pool.
LineSeqs(n) ==
    IF n = 0 THEN {<<>>}
    ELSE LineSeqs(n - 1)
         \cup UNION {{Append(s, l) : l \in LinePool \ Range(s)} : s \in LineSeqs(n - 1)}

\* The unit files of the transformer's specification.
UnitTexts == {Join(ls, "\n") : ls \in LineSeqs(MaxLines)}

\* The service name in the combo box.
ServiceNames == {"app.service"}

\* The dist folder of the transformer's specification and its listing.
DistFolder == "/opt/dist"

DistListing ==
    <<[name |-> "pyarmor_runtime_000000", dir |-> TRUE],
      [name |-> "app", dir |-> TRUE]>>

\* The texts of the User field.
Users == {"", "svc"}

\* The path components of an original WorkingDirectory; the empty component
\* writes a doubled or a trailing slash.
Components == {"app", "api", ""}

RECURSIVE ComponentSeqs(_)
\* The sequences of 1..n components.
ComponentSeqs(n) ==
    IF n = 0 THEN {}
    ELSE {<<c>> : c \in Components}
         \cup ComponentSeqs(n - 1)
         \cup {Append(s, c) : s \in ComponentSeqs(n - 1), c \in Components}

\* The original WorkingDirectory values of the working-directory specification.
WdPaths == {"/" \o Join(cs, "/") : cs \in ComponentSeqs(MaxDepth)}

\* Its unit files: a [Service] section with one WorkingDirectory.
WdTexts == {"[Service]\nWorkingDirectory=" \o p : p \in WdPaths}

\* Its dist folders, the second inside a folder named like the project.
DistFolders == {"/opt/dist", "/srv/app/dist"}

\* Its listings of the dist folder: empty (or inaccessible), the runtime
\* folder alone, the runtime folder and the project in both orders, a file
\* before the project, two candidate folders, a runtime folder and a file
\* only, and the folders pyarmor_runtime_2024 and myapp in both orders.
DistListings ==
    {<<>>,
     <<[name |-> "pyarmor_runtime_2024", dir |-> TRUE], [name |-> "README.md", dir |-> FALSE]>>,
     <<[name |-> "pyarmor_runtime_2024", dir |-> TRUE], [name |-> "myapp", dir |-> TRUE]>>,
     <<[name |-> "myapp", dir |-> TRUE], [name |-> "pyarmor_runtime_2024", dir |-> TRUE]>>,
     <<[name |-> "pyarmor_runtime_000000", dir |-> TRUE]>>,
     <<[name |-> "pyarmor_runtime_000000", dir |-> TRUE], [name |-> "app", dir |-> TRUE]>>,
     <<[name |-> "app", dir |-> TRUE], [name |-> "pyarmor_runtime_000000", dir |-> TRUE]>>,
     <<[name |-> "README.md", dir |-> FALSE], [name |-> "app", dir |-> TRUE]>>,
     <<[name |-> "api", dir |-> TRUE], [name |-> "app", dir |-> TRUE]>>}

\* The two versions of the program that have worker threads and a
\* ServiceConfigTab: src/2_second_cut.py and src/third_version.py.
SecondCut == "2_second_cut.py"

ThirdVersion == "third_version.py"

(***************************************************************************)
(* State                                                                   *)
(***************************************************************************)
VARIABLES
    unit_file,                \* the text of /etc/systemd/system/<service> on the target
    dist_entries,             \* list_dir(dist) on the target, with is_dir of each entry
    dist_kind,                \* what the dist path is on the target: "missing", "file" or "dir"
    reads_succeed,            \* TRUE when the unit files are readable on the active backend:
                              \* read_file returns their text; FALSE when a read may fail
    other_units,              \* the texts of the unit files of the services not selected
    combo_service,            \* ServiceConfigTab.combo_service.currentText()
    txt_current_config,       \* ServiceConfigTab.txt_current_config.toPlainText()
    current_service_config,   \* ServiceConfigTab.current_service_config
    input_encrypted_folder,   \* ServiceConfigTab.input_encrypted_folder.text()
    input_user,               \* ServiceConfigTab.input_user.text()
    worker_config,            \* new_config of the running ServiceConfigWorker, or None
    gen_log                   \* history: one record per call of generate_new_service_content,
                              \* with its input and output texts and their lines

tabVars == <<unit_file, dist_entries, dist_kind, reads_succeed, other_units,
             combo_service, txt_current_config,
             current_service_config, input_encrypted_folder, input_user,
             worker_config, gen_log>>

VARIABLES
    cut,                      \* which version of the program runs
    enc_pc,                   \* EncryptionWorker: where run() stands
    enc_folder,               \* EncryptionWorker.folder
    enc_log,                  \* the lines EncryptionWorker emitted on log_signal
    enc_calls,                \* history: the commands EncryptionWorker ran, with their results
    enc_finished,             \* the emissions of EncryptionWorker.finished_signal
    enc_checks,               \* history: the answers of file_exists(dist_path) in run(),
                              \* each with the number of commands run before it
    dist_exists,              \* whether <folder>/dist exists on the target
    dep_pc,                   \* ServiceConfigWorker: where run() stands
    dep_service,              \* ServiceConfigWorker.service_name
    dep_sudo_pass,            \* ServiceConfigWorker.sudo_pass
    dep_log,                  \* the lines ServiceConfigWorker emitted on log_signal
    dep_calls,                \* history: the executor calls of ServiceConfigWorker, with their results
    dep_finished,             \* the emissions of ServiceConfigWorker.finished_signal
    dep_trace                 \* history: the log emissions of ServiceConfigWorker and the
                              \* calls and returns of its executor operations, in their order

encVars == <<enc_pc, enc_folder, enc_log, enc_calls, enc_finished, enc_checks,
             dist_exists>>

depVars == <<dep_pc, dep_service, dep_sudo_pass, dep_log, dep_calls, dep_finished,
             dep_trace>>

VARIABLES
    ssh_client,               \* SSHConnection.client: None or the state of the SSHClient
    ssh_sftp,                 \* SSHConnection.sftp: None or the open SFTP session
    ssh_host,                 \* SSHConnection.host
    ssh_username,             \* SSHConnection.username
    ssh_connected,            \* SSHConnection._connected
    ssh_sent,                 \* history: what was handed to client.exec_command
    sftp_sent,                \* history: the requests made on the SFTP session
    ssh_calls                 \* history: the calls made on the RemoteExecutor

sshVars == <<ssh_client, ssh_sftp, ssh_host, ssh_username, ssh_connected,
             ssh_sent, sftp_sent, ssh_calls>>

VARIABLES
    ssh_connections,          \* the SSHConnection objects created by the application, with
                              \* `session`: the state of the SSH session of each
    executors,                \* the executor objects created, in the order of their creation
    app_executor,             \* PyArmorDeployApp.executor (its place in executors)
    app_ssh_connection,       \* PyArmorDeployApp.ssh_connection: None or a place in ssh_connections
    is_remote,                \* PyArmorDeployApp.is_remote
    enc_tab_executor,         \* EncryptionTab.executor
    svc_tab_executor,         \* ServiceConfigTab.executor
    btn_encrypt,              \* EncryptionTab.btn_encrypt.isEnabled()
    btn_apply,                \* ServiceConfigTab.btn_apply.isEnabled()
    enc_workers,              \* the EncryptionWorker threads started, with their state
    dep_workers,              \* the ServiceConfigWorker threads started, with their state
    app_closed,               \* closeEvent was handled
    dialog_log                \* history: the outcomes of show_connection_dialog

appVars == <<ssh_connections, executors, app_executor, app_ssh_connection,
             is_remote, enc_tab_executor, svc_tab_executor, btn_encrypt,
             btn_apply, enc_workers, dep_workers, app_closed, dialog_log>>

vars == <<tabVars, cut, encVars, depVars, sshVars, appVars>>

\* What the handlers of one part of the program leave alone: the state of the
\* other parts.
OnlyTab == UNCHANGED <<cut, encVars, depVars, sshVars, appVars>>

OnlyEnc ==
    UNCHANGED <<tabVars, cut, depVars, sshVars, ssh_connections, executors,
                app_executor, app_ssh_connection, is_remote, enc_tab_executor,
                svc_tab_executor, btn_apply, dep_workers, app_closed, dialog_log>>

OnlyDeploy ==
    UNCHANGED <<dist_entries, dist_kind, reads_succeed, other_units,
                combo_service, txt_current_config,
                current_service_config, input_encrypted_folder, input_user,
                gen_log, cut, encVars, sshVars, ssh_connections, executors,
                app_executor, app_ssh_connection, is_remote, enc_tab_executor,
                svc_tab_executor, btn_encrypt, enc_workers, app_closed, dialog_log>>

OnlyRemote == UNCHANGED <<tabVars, cut, encVars, depVars, appVars>>

OnlyApp == UNCHANGED <<tabVars, cut, encVars, depVars, sshVars>>

(***************************************************************************)
(* Worker threads and their start buttons                                  *)
(***************************************************************************)
\* A start handler that leaves its button enabled.
StartWorkerButtonStays(workers, executor) ==
    [button |-> TRUE,
     workers |-> Append(workers, [state |-> "running", executor |-> executor])]

\* What a start handler does once its checks passed: the button is disabled
\* and a worker is created on the executor of the tab, and started.
StartWorker(workers, executor) ==
    [button |-> FALSE,
     workers |-> Append(workers, [state |-> "running", executor |-> executor])]

\* The worker at place i emits finished_signal at the end of run().
Emitted(workers, i) == [workers EXCEPT ![i].state = "emitted"]

\* The slot connected to finished_signal ran for the worker at place i.
Handled(workers, i) == [workers EXCEPT ![i].state = "handled"]

\* The workers after a step of run() that emitted `finished` on
\* finished_signal: the worker started last has emitted when it is not empty.
AfterEmissions(workers, finished) ==
    IF finished = <<>> THEN workers ELSE Emitted(workers, Len(workers))

\* on_encryption_finished(): the button is enabled again.
OnEncryptionFinished ==
    /\ OnlyApp
    /\ ~app_closed
    /\ \E i \in 1..Len(enc_workers) :
         /\ enc_workers[i].state = "emitted"
         /\ enc_workers' = Handled(enc_workers, i)
    /\ btn_encrypt' = TRUE
    /\ UNCHANGED <<ssh_connections, executors, app_executor, app_ssh_connection,
                   is_remote, enc_tab_executor, svc_tab_executor, btn_apply,
                   dep_workers, app_closed, dialog_log>>

\* on_apply_finished(): the button is enabled again.
OnApplyFinished ==
    /\ OnlyApp
    /\ ~app_closed
    /\ \E i \in 1..Len(dep_workers) :
         /\ dep_workers[i].state = "emitted"
         /\ dep_workers' = Handled(dep_workers, i)
    /\ btn_apply' = TRUE
    /\ UNCHANGED <<ssh_connections, executors, app_executor, app_ssh_connection,
                   is_remote, enc_tab_executor, svc_tab_executor, btn_encrypt,
                   enc_workers, app_closed, dialog_log>>

(***************************************************************************)
(* ServiceConfigTab: handlers                                              *)
(***************************************************************************)
\* f"/etc/systemd/system/{service_name}"
ServicePath(service_name) == "/etc/systemd/system/" \o service_name

\* What 'echo  | sudo -S cat <path>' leaves on stdout when it fails.  On the
\* local backend sudo and cat write their messages to stderr, which Popen
\* keeps apart.  On the remote backend exec_sudo_command asks for a
\* pseudo-terminal (get_pty=True), on which the messages of sudo and of cat
\* arrive on stdout, with '\r\n' at the end of each line; stdout is empty when
\* exec_command itself fails.
FailedSudoCatOutputs(kind, username, service_path) ==
    IF kind = "remote"
    THEN {"",
          "[sudo] password for " \o username \o ": \r\nsudo: no password was provided\r\n",
          "cat: " \o service_path \o ": No such file or directory\r\n"}
    ELSE {""}

\* The outcomes (read_file, 'cat', sudo 'cat') of the three read attempts of
\* parse_service on a unit file with this text, on a backend of this kind:
\* each attempt either yields the text or fails; a failed unprivileged cat
\* prints nothing that is kept, since the privileged one follows it.
ReadScenarios(kind, text, service_path) ==
    LET ok == [success |-> TRUE, stdout |-> text]
        failed == [success |-> FALSE, stdout |-> ""]
    IN {[read |-> Some(text), cat |-> ok, sudo_cat |-> ok],
        [read |-> None, cat |-> ok, sudo_cat |-> ok],
        [read |-> None, cat |-> failed, sudo_cat |-> ok]}
       \cup {[read |-> None, cat |-> failed,
               sudo_cat |-> [success |-> FALSE, stdout |-> out]] :
                 out \in FailedSudoCatOutputs(kind, "deploy", service_path)}

\* The value of `content` after the three read attempts of parse_service.
ReadAttempts(read, cat, sudo_cat) ==
    IF read # None THEN read[1]
    ELSE IF cat.success THEN cat.stdout
         ELSE sudo_cat.stdout

\* The values `content` can take in parse_service.
ReadContents(kind, text, service_path) ==
    {ReadAttempts(r.read, r.cat, r.sudo_cat) : r \in ReadScenarios(kind, text, service_path)}

\* txt_current_config.setText(content) followed by toPlainText(): the text
\* edit holds plain text for a text that is no HTML, as every unit file here,
\* and gives it back with each '\r\n' and each '\r' turned into '\n'.
SetText(content) ==
    IF \A i \in 1..Len(content) : SubSeq(content, i, i) # "\r" THEN content
    ELSE Replace(Replace(content, "\r\n", "\n"), "\r", "\n")

\* parse_service(): the Parse button.  The content read is parsed as it was
\* read and shown in the text edit.
ParseService ==
    /\ OnlyTab
    /\ Len(gen_log) < MaxApply
    /\ combo_service # ""
    /\ \E content \in (IF reads_succeed THEN {unit_file}
                        ELSE ReadContents(executors[svc_tab_executor].kind, unit_file,
                                          ServicePath(combo_service))) :
         IF content # ""
         THEN /\ txt_current_config' = SetText(content)
              /\ current_service_config' = ParseServiceContent(content)
         ELSE /\ txt_current_config' =
                     "Could not read service file: " \o ServicePath(combo_service)
              /\ UNCHANGED current_service_config
    /\ UNCHANGED <<unit_file, dist_entries, dist_kind, reads_succeed, other_units,
                   combo_service,
                   input_encrypted_folder, input_user, worker_config, gen_log>>

\* executor.file_exists(path) for the dist path: os.path.exists, or a
\* successful sftp.stat.
FileExists(kind) == kind # "missing"

\* The dialog apply_changes shows before it starts the worker.
ConfirmDialog(service_name) ==
    [kind |-> "question",
     title |-> "Confirm Changes",
     text |-> "This will update the service '" \o service_name
              \o "' with the new configuration.\n\n"
              \o "The service will be restarted after the update.\n\nContinue?"]

\* apply_changes(): the Apply button, enabled while no worker runs; the
\* fields are filled, the dist path exists and the confirmation dialog is
\* answered Yes.  The worker is created with the text of
\* generate_new_service_content.
ApplyChanges ==
    /\ OnlyTab
    /\ worker_config = None
    /\ Len(gen_log) < MaxApply
    /\ combo_service # "" /\ input_encrypted_folder # ""
    /\ FileExists(dist_kind)
    /\ \E new_config \in {GenerateNewServiceContent(txt_current_config, combo_service,
                                input_encrypted_folder, input_user,
                                dist_entries, current_service_config)} :
          /\ worker_config' = Some(new_config)
          /\ gen_log' = Append(gen_log,
                 [service |-> combo_service,
                  original |-> txt_current_config,
                  config |-> current_service_config,
                  dist |-> input_encrypted_folder,
                  user |-> input_user,
                  entries |-> dist_entries,
                  project_folder |-> DetectProjectFolder(dist_entries),
                  working_dir |-> CalculateNewWorkingDir(input_encrypted_folder,
                                      dist_entries, current_service_config),
                  output |-> new_config,
                  original_lines |-> Split(txt_current_config, "\n"),
                  output_lines |-> Split(new_config, "\n"),
                  dialogs |-> <<ConfirmDialog(combo_service)>>,
                  logged |-> <<>>])
    /\ UNCHANGED <<unit_file, dist_entries, dist_kind, reads_succeed, other_units,
                   combo_service,
                   txt_current_config, current_service_config,
                   input_encrypted_folder, input_user>>

\* on_service_changed(): another service is selected in the combo box; the
\* text shown and the parsed configuration are cleared.
OnServiceChanged ==
    /\ OnlyTab
    /\ Len(gen_log) < MaxApply
    /\ \E service_name \in DOMAIN other_units :
         /\ combo_service' = service_name
         /\ unit_file' = other_units[service_name]
         /\ other_units' =
               [s \in (DOMAIN other_units \ {service_name}) \cup {combo_service} |->
                   IF s = combo_service THEN unit_file ELSE other_units[s]]
    /\ txt_current_config' = ""
    /\ current_service_config' = EmptyConfig
    /\ UNCHANGED <<dist_entries, dist_kind, reads_succeed, input_encrypted_folder,
                   input_user, worker_config, gen_log>>

\* ServiceConfigWorker.run as the tab sees it, in a run whose write and move
\* succeed: the unit file of the service the worker was created for is
\* replaced by new_config, then on_apply_finished enables the button again.
\* (The runs that fail leave the unit file as it was; the worker's steps are
\* the actions of SpecDeploy.)
WorkerInstalls ==
    /\ OnlyTab
    /\ Len(gen_log) < MaxApply
    /\ worker_config # None
    /\ IF gen_log[Len(gen_log)].service = combo_service
       THEN /\ unit_file' = worker_config[1]
            /\ UNCHANGED other_units
       ELSE /\ other_units' =
                  [other_units EXCEPT ![gen_log[Len(gen_log)].service] = worker_config[1]]
            /\ UNCHANGED unit_file
    /\ worker_config' = None
    /\ UNCHANGED <<dist_entries, dist_kind, reads_succeed, combo_service,
                   txt_current_config, current_service_config,
                   input_encrypted_folder, input_user, gen_log>>

\* No EncryptionWorker exists.
EncIdle ==
    /\ enc_pc = "idle"
    /\ enc_folder = ""
    /\ enc_log = <<>>
    /\ enc_calls = <<>>
    /\ enc_finished = <<>>
    /\ enc_checks = <<>>
    /\ dist_exists = FALSE

\* No ServiceConfigWorker exists.
DepIdle ==
    /\ dep_pc = "idle"
    /\ dep_service = ""
    /\ dep_sudo_pass = ""
    /\ dep_log = <<>>
    /\ dep_calls = <<>>
    /\ dep_finished = <<>>
    /\ dep_trace = <<>>

\* SSHConnection.__init__
SSHConnectionInit ==
    /\ ssh_client = None
    /\ ssh_sftp = None
    /\ ssh_host = None
    /\ ssh_username = None
    /\ ssh_connected = FALSE
    /\ ssh_sent = <<>>
    /\ sftp_sent = <<>>
    /\ ssh_calls = <<>>

\* SSHConnection(): the object after __init__, no session opened.
NewSSHConnection ==
    [client |-> None, sftp |-> None, host |-> None, username |-> None,
     connected |-> FALSE, session |-> "none"]

\* How connect() can end: both client.connect and open_sftp succeed; or
\* client.connect raises; or client.connect succeeds, which opens the
\* session, and open_sftp raises.
ConnectOutcomes == {"ok", "connect_failed", "sftp_failed"}

\* The object c after c.connect(host, username, ...) ended with `outcome`.
ConnectionAfterConnect(c, outcome, host, username) ==
    IF outcome = "ok"
    THEN [client |-> Some("SSHClient"), sftp |-> Some("sftp"), host |-> Some(host),
          username |-> Some(username), connected |-> TRUE, session |-> "open"]
    ELSE [c EXCEPT !.client = Some("SSHClient"),
                   !.connected = FALSE,
                   !.session = IF outcome = "sftp_failed" THEN "open" ELSE c.session]

\* The object c after c.disconnect(): client.close() ends the session.
ConnectionAfterDisconnect(c) ==
    [client |-> None, sftp |-> None, host |-> None, username |-> None,
     connected |-> FALSE,
     session |-> IF c.client # None /\ c.session = "open" THEN "closed" ELSE c.session]

\* PyArmorDeployApp.__init__ up to the connection dialog it shows: a
\* LocalExecutor, held by the application and given to both tabs, and no SSH
\* connection; both buttons are enabled and no worker exists.
PyArmorDeployAppInit ==
    /\ ssh_connections = <<>>
    /\ executors = <<[kind |-> "local", ssh |-> 0]>>
    /\ app_executor = 1
    /\ app_ssh_connection = None
    /\ is_remote = FALSE
    /\ enc_tab_executor = 1
    /\ svc_tab_executor = 1
    /\ btn_encrypt = TRUE
    /\ btn_apply = TRUE
    /\ enc_workers = <<>>
    /\ dep_workers = <<>>
    /\ app_closed = FALSE
    /\ dialog_log = <<>>

\* The application after the connection dialog shown at startup was answered
\* Remote and connect() succeeded: a RemoteExecutor on the new SSHConnection is
\* the executor of the application and of both tabs.
PyArmorDeployAppRemote ==
    /\ ssh_connections = <<ConnectionAfterConnect(NewSSHConnection, "ok",
                                                  "10.0.0.5", "deploy")>>
    /\ executors = <<[kind |-> "local", ssh |-> 0], [kind |-> "remote", ssh |-> 1]>>
    /\ app_executor = 2
    /\ app_ssh_connection = Some(1)
    /\ is_remote = TRUE
    /\ enc_tab_executor = 2
    /\ svc_tab_executor = 2
    /\ btn_encrypt = TRUE
    /\ btn_apply = TRUE
    /\ enc_workers = <<>>
    /\ dep_workers = <<>>
    /\ app_closed = FALSE
    /\ dialog_log = <<[choice |-> "remote", outcome |-> "ok"]>>

\* The tab after construction, on a target that holds some unit file.
Init ==
    /\ cut = ThirdVersion
    /\ EncIdle /\ DepIdle /\ SSHConnectionInit /\ PyArmorDeployAppInit
    /\ unit_file \in UnitTexts
    /\ dist_entries = DistListing
    /\ dist_kind = "dir"
    /\ reads_succeed = FALSE
    /\ other_units = <<>>
    /\ combo_service \in ServiceNames
    /\ txt_current_config = ""
    /\ current_service_config = EmptyConfig
    /\ input_encrypted_folder = DistFolder
    /\ input_user \in Users
    /\ worker_config = None
    /\ gen_log = <<>>

Next ==
    \/ ParseService
    \/ ApplyChanges
    \/ WorkerInstalls

Spec == Init /\ [][Next]_vars

\* The tab on a target whose unit file sets a WorkingDirectory, for each dist
\* folder and listing.
InitWd ==
    /\ cut = ThirdVersion
    /\ EncIdle /\ DepIdle /\ SSHConnectionInit /\ PyArmorDeployAppInit
    /\ unit_file \in WdTexts
    /\ dist_entries \in DistListings
    /\ dist_kind = "dir"
    /\ reads_succeed = FALSE
    /\ other_units = <<>>
    /\ combo_service \in ServiceNames
    /\ txt_current_config = ""
    /\ current_service_config = EmptyConfig
    /\ input_encrypted_folder \in DistFolders
    /\ input_user = ""
    /\ worker_config = None
    /\ gen_log = <<>>

SpecWd == InitWd /\ [][Next]_vars

\* The services of the service-selection specification.
SelectableServices == {"app.service", "api.service"}

\* Their unit files: none of them empty.
SelectableUnits ==
    {"[Service]\nExecStart=/srv/app/venv/bin/python main.py",
     "[Unit]\nDescription=api\n[Service]\nWorkingDirectory=/srv/app/api\nUser=root",
     "[Service]\nEnvironment=PYTHONPATH=/opt/dist\n[Install]\nWantedBy=multi-user.target"}

\* The tab after construction and the startup dialog, on the local or on a
\* remote target with two services, whose unit files are readable or not.
InitSel ==
    /\ cut = ThirdVersion
    /\ EncIdle /\ DepIdle /\ SSHConnectionInit
    /\ PyArmorDeployAppInit \/ PyArmorDeployAppRemote
    /\ unit_file \in SelectableUnits
    /\ dist_entries = DistListing
    /\ dist_kind = "dir"
    /\ reads_succeed \in BOOLEAN
    /\ other_units \in [SelectableServices \ {"app.service"} -> SelectableUnits]
    /\ combo_service = "app.service"
    /\ txt_current_config = ""
    /\ current_service_config = EmptyConfig
    /\ input_encrypted_folder = DistFolder
    /\ input_user \in Users
    /\ worker_config = None
    /\ gen_log = <<>>

NextSel ==
    \/ OnServiceChanged
    \/ ParseService
    \/ ApplyChanges
    \/ WorkerInstalls

SpecSel == InitSel /\ [][NextSel]_vars

(***************************************************************************)
(* Commands and their results                                              *)
(***************************************************************************)
\* What running cmd can return: (success, stdout, stderr) of its exit status
\* and its two output streams, or the exception the attempt to start it raised.
\* LocalExecutor.run_command turns the exception into (False, "", str(e)).
Results(cmd) ==
    {[success |-> ok, stdout |-> out, stderr |-> err, raised |-> FALSE] :
        ok \in BOOLEAN,
        out \in {"", "stdout of " \o cmd},
        err \in {"", "stderr of " \o cmd}}
    \cup {[success |-> FALSE, stdout |-> "", stderr |-> "error of " \o cmd,
           raised |-> TRUE]}

\* 'if stdout: log(stdout)' and 'if stderr: log(f"STDERR: {stderr}")'
OutputLines(r) ==
    (IF r.stdout # "" THEN <<r.stdout>> ELSE <<>>)
    \o (IF r.stderr # "" THEN <<"STDERR: " \o r.stderr>> ELSE <<>>)

\* The lines run_command of the second cut's workers emits around one command:
\* the command as shown, then its output, or the error that was raised.
RunCommandLines(shown, r) ==
    <<"Executing: " \o shown>>
    \o (IF r.raised THEN <<"Error: " \o r.stderr>> ELSE OutputLines(r))

\* f"echo {sudo_pass} | sudo -S {cmd}"
SudoText(cmd, sudo_pass) == "echo " \o sudo_pass \o " | sudo -S " \o cmd

(***************************************************************************)
(* EncryptionWorker                                                        *)
(***************************************************************************)
CfgCommand == "pyarmor cfg data_files=*"

\* os.path.join(self.folder, "dist")
DistPath(folder) == PathJoin(folder, "dist")

\* f"rm -rf {dist_path}"
RmCommand(folder) == "rm -rf " \o DistPath(folder)

\* enc_cmd
EncCommand(folder) ==
    "pyarmor gen -O " \o DistPath(folder)
    \o " -r --exclude '*/.venv/**' --exclude '*/__pycache__/**' " \o folder

\* The project folders the user encrypts.
ProjectFolders == {"/srv/app", "/home/dev/proj/"}

\* run() continuing after a failed configuration step.
ConfigureOutcomeGoesOn(version, r) ==
    [pc |-> "clean",
     log |-> IF version = ThirdVersion
             THEN <<"--- Starting Encryption Process ---",
                    "Executing: " \o CfgCommand>> \o OutputLines(r)
             ELSE <<"--- Starting Encryption Process ---">>
                  \o RunCommandLines(CfgCommand, r),
     finished |-> <<>>]

\* run() from its start to the branch on the result r of the configuration
\* command: the lines emitted, the emission of finished_signal if any, and
\* where run() stands next.
ConfigureOutcome(version, r) ==
    LET lines == IF version = ThirdVersion
                 THEN <<"--- Starting Encryption Process ---",
                        "Executing: " \o CfgCommand>> \o OutputLines(r)
                 ELSE <<"--- Starting Encryption Process ---">>
                      \o RunCommandLines(CfgCommand, r)
    IN IF r.success
       THEN [pc |-> "clean", log |-> lines, finished |-> <<>>]
       ELSE [pc |-> "done",
             log |-> IF version = ThirdVersion
                     THEN lines \o <<"Failed to configure PyArmor">>
                     ELSE lines,
             finished |-> <<[success |-> FALSE, dist_path |-> ""]>>]

\* An end of run() that reports the output path whatever the result.
EncryptOutcomeKeepsPath(version, folder, r) ==
    LET lines == IF version = ThirdVersion
                 THEN <<"Encrypting folder: " \o folder,
                        "Executing: " \o EncCommand(folder)>> \o OutputLines(r)
                 ELSE <<"Encrypting folder: " \o folder>>
                      \o RunCommandLines(EncCommand(folder), r)
    IN [log |-> lines \o <<"Encryption completed successfully!">>,
        finished |-> <<[success |-> r.success, dist_path |-> DistPath(folder)]>>]

\* run() from the encryption command to its end.
EncryptOutcome(version, folder, r) ==
    LET lines == IF version = ThirdVersion
                 THEN <<"Encrypting folder: " \o folder,
                        "Executing: " \o EncCommand(folder)>> \o OutputLines(r)
                 ELSE <<"Encrypting folder: " \o folder>>
                      \o RunCommandLines(EncCommand(folder), r)
    IN IF r.success
       THEN [log |-> lines \o <<"Encryption completed successfully!">>,
             finished |-> <<[success |-> TRUE, dist_path |-> DistPath(folder)]>>]
       ELSE [log |-> IF version = ThirdVersion
                     THEN lines \o <<"Encryption failed!">>
                     ELSE lines,
             finished |-> <<[success |-> FALSE, dist_path |-> ""]>>]

\* start_encryption(): the Encrypt button creates the worker and starts it.
StartEncryption ==
    /\ OnlyEnc
    /\ enc_pc = "idle"
    /\ btn_encrypt
    /\ \E folder \in ProjectFolders : enc_folder' = folder
    /\ LET o == StartWorker(enc_workers, enc_tab_executor)
       IN /\ btn_encrypt' = o.button
          /\ enc_workers' = o.workers
    /\ enc_pc' = "configure"
    /\ UNCHANGED <<enc_log, enc_calls, enc_finished, enc_checks, dist_exists>>

\* run(), step 1: 'pyarmor cfg data_files=*'.
EncConfigure ==
    /\ OnlyEnc
    /\ enc_pc = "configure"
    /\ \E r \in Results(CfgCommand) :
         LET o == ConfigureOutcome(cut, r)
         IN /\ enc_calls' = Append(enc_calls, [cmd |-> CfgCommand, result |-> r,
                                               dist_before |-> dist_exists])
            /\ enc_log' = enc_log \o o.log
            /\ enc_finished' = enc_finished \o o.finished
            /\ enc_workers' = AfterEmissions(enc_workers, o.finished)
            /\ enc_pc' = o.pc
    /\ UNCHANGED <<enc_folder, enc_checks, dist_exists, btn_encrypt>>

\* What file_exists(dist_path) can answer: os.path.exists of the path on the
\* local backend; on the remote backend True when sftp.stat succeeds and False
\* when it raises or no session is open, also for a path that exists.
FileExistsAnswers(exists) == IF exists THEN {TRUE, FALSE} ELSE {FALSE}

\* A cleaning step that removes the dist folder without asking for it.
CleanOutcomeUnconditional(version, folder, exists, r) ==
    [calls |-> <<[cmd |-> RmCommand(folder), result |-> r, dist_before |-> TRUE]>>,
     log |-> <<"Cleaning existing dist folder: " \o DistPath(folder)>>
             \o (IF version = ThirdVersion THEN <<>>
                 ELSE RunCommandLines(RmCommand(folder), r)),
     removed |-> r.success,
     pc |-> "encrypt",
     finished |-> <<>>]

\* A cleaning step that ends the run when the removal fails.
CleanOutcomeHalts(version, folder, exists, r) ==
    IF exists
    THEN [calls |-> <<[cmd |-> RmCommand(folder), result |-> r, dist_before |-> TRUE]>>,
          log |-> <<"Cleaning existing dist folder: " \o DistPath(folder)>>
                  \o (IF version = ThirdVersion THEN <<>>
                      ELSE RunCommandLines(RmCommand(folder), r)),
          removed |-> r.success,
          pc |-> IF r.success THEN "encrypt" ELSE "done",
          finished |-> IF r.success THEN <<>>
                       ELSE <<[success |-> FALSE, dist_path |-> ""]>>]
    ELSE [calls |-> <<>>, log |-> <<>>, removed |-> FALSE, pc |-> "encrypt",
          finished |-> <<>>]

\* run(), step 2, after file_exists(dist_path) answered `exists`: the command
\* run, of result r, the lines emitted, whether the dist folder is gone, and
\* where run() stands next.  The result of the removal is not looked at.
CleanOutcome(version, folder, exists, r) ==
    IF exists
    THEN [calls |-> <<[cmd |-> RmCommand(folder), result |-> r, dist_before |-> TRUE]>>,
          log |-> <<"Cleaning existing dist folder: " \o DistPath(folder)>>
                  \o (IF version = ThirdVersion THEN <<>>
                      ELSE RunCommandLines(RmCommand(folder), r)),
          removed |-> r.success,
          pc |-> "encrypt",
          finished |-> <<>>]
    ELSE [calls |-> <<>>, log |-> <<>>, removed |-> FALSE, pc |-> "encrypt",
          finished |-> <<>>]

\* run(), step 2: remove an existing dist folder; the result of the command
\* is ignored.
EncClean ==
    /\ OnlyEnc
    /\ enc_pc = "clean"
    /\ \E exists \in FileExistsAnswers(dist_exists), r \in Results(RmCommand(enc_folder)) :
         LET o == CleanOutcome(cut, enc_folder, exists, r)
         IN /\ enc_checks' = Append(enc_checks,
                                    [answer |-> exists, after |-> Len(enc_calls)])
            /\ enc_calls' = enc_calls \o o.calls
            /\ enc_log' = enc_log \o o.log
            /\ enc_finished' = enc_finished \o o.finished
            /\ enc_workers' = AfterEmissions(enc_workers, o.finished)
            /\ dist_exists' = (dist_exists /\ ~o.removed)
            /\ enc_pc' = o.pc
    /\ UNCHANGED <<enc_folder, btn_encrypt>>

\* run(), step 3: 'pyarmor gen', which creates the dist folder when it succeeds.
EncEncrypt ==
    /\ OnlyEnc
    /\ enc_pc = "encrypt"
    /\ \E r \in Results(EncCommand(enc_folder)) :
         LET o == EncryptOutcome(cut, enc_folder, r)
         IN /\ enc_calls' = Append(enc_calls,
                                   [cmd |-> EncCommand(enc_folder), result |-> r,
                                    dist_before |-> dist_exists])
            /\ enc_log' = enc_log \o o.log
            /\ enc_finished' = enc_finished \o o.finished
            /\ enc_workers' = AfterEmissions(enc_workers, o.finished)
            /\ dist_exists' = (dist_exists \/ r.success)
    /\ enc_pc' = "done"
    /\ UNCHANGED <<enc_folder, enc_checks, btn_encrypt>>

\* No service is selected and nothing was parsed.
TabIdle ==
    /\ unit_file = ""
    /\ dist_entries = <<>>
    /\ dist_kind = "missing"
    /\ reads_succeed = FALSE
    /\ other_units = <<>>
    /\ combo_service = ""
    /\ txt_current_config = ""
    /\ current_service_config = EmptyConfig
    /\ input_encrypted_folder = ""
    /\ input_user = ""
    /\ worker_config = None
    /\ gen_log = <<>>

InitEnc ==
    /\ cut \in {SecondCut, ThirdVersion}
    /\ TabIdle /\ DepIdle /\ SSHConnectionInit /\ PyArmorDeployAppInit
    /\ enc_pc = "idle"
    /\ enc_folder = ""
    /\ enc_log = <<>>
    /\ enc_calls = <<>>
    /\ enc_finished = <<>>
    /\ enc_checks = <<>>
    /\ dist_exists \in BOOLEAN

NextEnc ==
    \/ StartEncryption
    \/ EncConfigure
    \/ EncClean
    \/ EncEncrypt
    \/ OnEncryptionFinished

SpecEnc == InitEnc /\ [][NextEnc]_vars

\* What goes on by itself once a run was started: the next statement of
\* run(), and the slot of finished_signal in the GUI thread.  At most one of
\* them is enabled at a time.
EncRunStep ==
    \/ EncConfigure
    \/ EncClean
    \/ EncEncrypt
    \/ OnEncryptionFinished

\* The same, with every operation the worker thread waits for returning (each
\* step of run() is taken once it is enabled) and the GUI thread's event loop
\* delivering the queued finished_signal to its slot.  The user's click is
\* not forced.
SpecEncLive == SpecEnc /\ WF_vars(EncRunStep)

(***************************************************************************)
(* ServiceConfigWorker                                                     *)
(***************************************************************************)
\* f"/tmp/{self.service_name}"
TempPath(service_name) == "/tmp/" \o service_name

\* f"mv {temp_path} {target_path}"
MvCommand(service_name) ==
    "mv " \o TempPath(service_name) \o " " \o ServicePath(service_name)

ReloadCommand == "systemctl daemon-reload"

\* f"systemctl restart {self.service_name}"
RestartCommand(service_name) == "systemctl restart " \o service_name

\* The sudo passwords the user types; the last is also a word of every
\* privileged command.
SudoPasswords == {"hunter2", "pw", "sudo"}

\* The unit files the worker is given to install.
NewConfigs ==
    {GenerateFallbackServiceContent("app.service", "/opt/dist/app", "/opt/dist", "svc"),
     "[Service]\nEnvironment=\"PYTHONPATH=/opt/dist\"\nExecStart=/usr/bin/python3 main.py"}

\* The lines the worker emits for one privileged command with result r: the
\* second cut's run_command shows the command with the password replaced and
\* all its output; the third version emits the lines of `shown`, which its
\* run() chooses step by step.
SudoLines(version, cmd, sudo_pass, r, shown) ==
    IF version = ThirdVersion THEN shown
    ELSE RunCommandLines(Replace(SudoText(cmd, sudo_pass), sudo_pass, "******"), r)

\* A run() whose reload and restart statements are exchanged.
StepAfterSwapped(step) ==
    CASE step = "write" -> "move"
      [] step = "move" -> "restart"
      [] step = "restart" -> "reload"
      [] step = "reload" -> "done"

\* The statement of run() that follows a step that did not return early.
StepAfter(step) ==
    CASE step = "write" -> "move"
      [] step = "move" -> "reload"
      [] step = "reload" -> "restart"
      [] step = "restart" -> "done"

\* The lines run() emits in a step before it calls the executor (or Popen):
\* the header and 'Writing service file to' of step 1 in the third version,
\* the header alone in the second cut; one announcing line in each later step.
LinesBeforeCall(version, step) ==
    IF step = "write" /\ version = ThirdVersion THEN 2 ELSE 1

\* What one step of run() adds to the trace: the first n lines it emits, the
\* call of its operation and the return of it, then the lines emitted after.
StepEvents(lines, n, call) ==
    [k \in 1..n |-> [event |-> "log", line |-> lines[k]]]
    \o <<[event |-> "call", line |-> call.cmd], [event |-> "return", line |-> call.cmd]>>
    \o [k \in 1..(Len(lines) - n) |-> [event |-> "log", line |-> lines[n + k]]]

\* The events of the step that was just taken.
LastStepEvents(version, step, log_before, log_after, calls_after) ==
    StepEvents(SubSeq(log_after, Len(log_before) + 1, Len(log_after)),
               LinesBeforeCall(version, step), calls_after[Len(calls_after)])

\* run() going on to the reload after a failed move.
MoveOutcomeGoesOn(version, service_name, sudo_pass, r) ==
    [pc |-> "reload",
     log |-> (IF version = ThirdVersion
              THEN <<"Moving to: " \o ServicePath(service_name)>> ELSE <<>>)
             \o SudoLines(version, MvCommand(service_name), sudo_pass, r,
                          IF r.stdout # "" THEN <<r.stdout>> ELSE <<>>),
     finished |-> <<>>]

\* run(), step 2, after the privileged move returned r.
MoveOutcome(version, service_name, sudo_pass, r) ==
    LET lines == (IF version = ThirdVersion
                  THEN <<"Moving to: " \o ServicePath(service_name)>> ELSE <<>>)
                 \o SudoLines(version, MvCommand(service_name), sudo_pass, r,
                              IF r.stdout # "" THEN <<r.stdout>> ELSE <<>>)
    IN IF r.success
       THEN [pc |-> StepAfter("move"), log |-> lines, finished |-> <<>>]
       ELSE [pc |-> "done",
             log |-> IF version = ThirdVersion
                     THEN lines \o <<"Failed to move service file: " \o r.stderr>>
                     ELSE lines,
             finished |-> <<FALSE>>]

\* What the dist path of the Apply form can be on the target.
DistKinds == {"missing", "file", "dir"}

\* apply_changes(): when the three fields are filled and the dist path
\* exists on the target, it creates the worker with the service name, the new
\* unit file and the sudo password, and starts it; otherwise it shows a
\* warning and returns.
StartDeploy ==
    /\ OnlyDeploy
    /\ dep_pc = "idle"
    /\ worker_config = None
    /\ btn_apply
    /\ LET o == StartWorker(dep_workers, svc_tab_executor)
       IN /\ btn_apply' = o.button
          /\ dep_workers' = o.workers
    /\ \E new_config \in NewConfigs, sudo_pass \in SudoPasswords \cup {""} :
         /\ combo_service # "" /\ input_encrypted_folder # "" /\ sudo_pass # ""
         /\ FileExists(dist_kind)
         /\ dep_service' = combo_service
         /\ worker_config' = Some(new_config)
         /\ dep_sudo_pass' = sudo_pass
    /\ dep_pc' = "write"
    /\ UNCHANGED <<unit_file, dep_log, dep_calls, dep_finished, dep_trace>>

\* run(), step 1: write new_config to /tmp/<service>.  The third version asks
\* the executor, whose write_file returns False on failure; the second cut
\* opens the file itself, and an exception of open() or write() leaves run().
DepWrite ==
    /\ OnlyDeploy
    /\ dep_pc = "write"
    /\ \E ok \in BOOLEAN :
         /\ dep_calls' = Append(dep_calls,
                [verb |-> "write_file", cmd |-> TempPath(dep_service),
                 result |-> [success |-> ok, stdout |-> "", stderr |-> "",
                             raised |-> (cut = SecondCut /\ ~ok)]])
         /\ IF cut = ThirdVersion
            THEN /\ dep_log' = dep_log
                        \o <<"--- Updating Service Configuration ---",
                             "Writing service file to: " \o TempPath(dep_service)>>
                        \o (IF ok
                            THEN <<"Generated service file at: " \o TempPath(dep_service)>>
                            ELSE <<"Failed to write temp service file">>)
                 /\ dep_finished' = (IF ok THEN dep_finished
                                     ELSE Append(dep_finished, FALSE))
                 /\ dep_workers' = (IF ok THEN dep_workers
                                    ELSE Emitted(dep_workers, Len(dep_workers)))
                 /\ dep_pc' = (IF ok THEN StepAfter("write") ELSE "done")
            ELSE /\ dep_log' = dep_log
                        \o <<"--- Updating Service Configuration ---">>
                        \o (IF ok
                            THEN <<"Generated service file at: " \o TempPath(dep_service)>>
                            ELSE <<>>)
                 /\ UNCHANGED <<dep_finished, dep_workers>>
                 /\ dep_pc' = (IF ok THEN StepAfter("write") ELSE "raised")
         /\ dep_trace' = dep_trace
                \o LastStepEvents(cut, "write", dep_log, dep_log', dep_calls')
    /\ UNCHANGED <<unit_file, worker_config, dep_service, dep_sudo_pass, btn_apply>>

\* run(), step 2: the privileged move, which installs the unit file when it
\* succeeds.
DepMove ==
    /\ OnlyDeploy
    /\ dep_pc = "move"
    /\ \E r \in Results(MvCommand(dep_service)) :
         LET o == MoveOutcome(cut, dep_service, dep_sudo_pass, r)
         IN /\ dep_calls' = Append(dep_calls,
                   [verb |-> "run_sudo_command", cmd |-> MvCommand(dep_service),
                    result |-> r])
            /\ dep_log' = dep_log \o o.log
            /\ dep_finished' = dep_finished \o o.finished
            /\ dep_workers' = AfterEmissions(dep_workers, o.finished)
            /\ dep_pc' = o.pc
            /\ unit_file' = (IF r.success THEN worker_config[1] ELSE unit_file)
            /\ dep_trace' = dep_trace
                   \o LastStepEvents(cut, "move", dep_log, dep_log', dep_calls')
    /\ UNCHANGED <<worker_config, dep_service, dep_sudo_pass, btn_apply>>

\* run(), step 3: 'systemctl daemon-reload'; the result is not looked at.
DepReload ==
    /\ OnlyDeploy
    /\ dep_pc = "reload"
    /\ \E r \in Results(ReloadCommand) :
         /\ dep_calls' = Append(dep_calls,
                [verb |-> "run_sudo_command", cmd |-> ReloadCommand, result |-> r])
         /\ dep_log' = dep_log
                \o (IF cut = ThirdVersion THEN <<"Reloading systemd daemon...">> ELSE <<>>)
                \o SudoLines(cut, ReloadCommand, dep_sudo_pass, r, <<>>)
         /\ dep_trace' = dep_trace
                \o LastStepEvents(cut, "reload", dep_log, dep_log', dep_calls')
    /\ dep_pc' = StepAfter("reload")
    /\ UNCHANGED <<unit_file, worker_config, dep_service, dep_sudo_pass, dep_finished,
                   btn_apply, dep_workers>>

\* run(), step 4: 'systemctl restart <service>', then the success report
\* whatever the result.
DepRestart ==
    /\ OnlyDeploy
    /\ dep_pc = "restart"
    /\ \E r \in Results(RestartCommand(dep_service)) :
         /\ dep_calls' = Append(dep_calls,
                [verb |-> "run_sudo_command", cmd |-> RestartCommand(dep_service),
                 result |-> r])
         /\ dep_log' = dep_log
                \o (IF cut = ThirdVersion
                    THEN <<"Restarting " \o dep_service \o "...">> ELSE <<>>)
                \o SudoLines(cut, RestartCommand(dep_service), dep_sudo_pass, r,
                             IF r.stdout # "" THEN <<r.stdout>> ELSE <<>>)
                \o <<"Service configuration updated successfully!">>
         /\ dep_trace' = dep_trace
                \o LastStepEvents(cut, "restart", dep_log, dep_log', dep_calls')
    /\ dep_finished' = Append(dep_finished, TRUE)
    /\ dep_workers' = Emitted(dep_workers, Len(dep_workers))
    /\ dep_pc' = StepAfter("restart")
    /\ UNCHANGED <<unit_file, worker_config, dep_service, dep_sudo_pass, btn_apply>>

InitDeploy ==
    /\ cut \in {SecondCut, ThirdVersion}
    /\ EncIdle /\ DepIdle /\ SSHConnectionInit /\ PyArmorDeployAppInit
    /\ unit_file \in {"", "[Service]\nUser=root"}
    /\ dist_entries = <<>>
    /\ dist_kind \in DistKinds
    /\ reads_succeed = FALSE
    /\ other_units = <<>>
    /\ combo_service \in ServiceNames
    /\ txt_current_config = ""
    /\ current_service_config = EmptyConfig
    /\ input_encrypted_folder \in {"", DistFolder}
    /\ input_user = ""
    /\ worker_config = None
    /\ gen_log = <<>>

NextDeploy ==
    \/ StartDeploy
    \/ DepWrite
    \/ DepMove
    \/ DepReload
    \/ DepRestart
    \/ OnApplyFinished

SpecDeploy == InitDeploy /\ [][NextDeploy]_vars

\* What goes on by itself once a run was started: the next statement of
\* run(), and the slot of finished_signal in the GUI thread.  At most one of
\* them is enabled at a time.
DepRunStep ==
    \/ DepWrite
    \/ DepMove
    \/ DepReload
    \/ DepRestart
    \/ OnApplyFinished

\* The same, with every operation the worker thread waits for returning (each
\* step of run() is taken once it is enabled) and the GUI thread's event loop
\* delivering the queued finished_signal to its slot.  The user's click is
\* not forced.
SpecDeployLive == SpecDeploy /\ WF_vars(DepRunStep)

(***************************************************************************)
(* SSHConnection and RemoteExecutor                                        *)
(***************************************************************************)
MaxCalls == 2

\* path_prefix of exec_command
PathPrefix == "export PATH=\"$HOME/.local/bin:$HOME/bin:/usr/local/bin:$PATH\" && "

\* exec_command not prepending anything.
ExecCommandTextBare(cmd) == cmd

\* full_cmd of exec_command
ExecCommandText(cmd) == PathPrefix \o cmd

\* The position of the last '/' of p; 0 when there is none.
LastSlash(p) ==
    LET seps == SepPositions(p, "/")
    IN IF seps = {} THEN 0 ELSE CHOOSE i \in seps : \A j \in seps : j <= i

RECURSIVE RStripSlashes(_)
\* p.rstrip('/')
RStripSlashes(p) ==
    IF p # "" /\ EndsWith(p, "/") THEN RStripSlashes(SubSeq(p, 1, Len(p) - 1)) ELSE p

\* os.path.dirname(p) of posixpath
Dirname(p) ==
    LET head == SubSeq(p, 1, LastSlash(p))
    IN IF head # "" /\ RStripSlashes(head) # "" THEN RStripSlashes(head) ELSE head

\* os.path.basename(p) of posixpath
Basename(p) == SubSeq(p, LastSlash(p) + 1, Len(p))

\* The command glob_files builds for a pattern.
FindCommand(pattern) ==
    "find " \o Dirname(pattern) \o " -maxdepth 1 -name '" \o Basename(pattern)
    \o "' 2>/dev/null"

\* The command get_file_mtime builds for a path.
StatCommand(path) == "stat -c %Y " \o path \o " 2>/dev/null"

\* The commands callers run on the target; one refers to environment variables.
RemoteCommands == {CfgCommand, "echo $HOME:$PATH", ReloadCommand}

\* The patterns callers glob.
GlobPatterns == {"/srv/app/dist/pyarmor_runtime_*", "*.service"}

\* The paths callers ask the modification time of.
MtimePaths == {"/srv/app/dist", "/srv/app/$USER/main.py"}

Hosts == {"10.0.0.5"}

Usernames == {"deploy"}

\* SSHConnection.is_connected()
IsConnected == ssh_connected /\ ssh_client # None

\* SSHConnection.exec_command(cmd, get_pty): nothing is sent on a connection
\* that is not connected; otherwise full_cmd is handed to the SSH client.
ExecCommand(cmd, get_pty) ==
    ssh_sent' = IF IsConnected
                THEN Append(ssh_sent, [text |-> ExecCommandText(cmd), get_pty |-> get_pty])
                ELSE ssh_sent

\* SSHConnection.exec_sudo_command(cmd, sudo_pass)
ExecSudoCommand(cmd, sudo_pass) == ExecCommand(SudoText(cmd, sudo_pass), TRUE)

\* SSHConnection.connect(): a new SSHClient is created and bound to
\* self.client, then client.connect opens the session and open_sftp the SFTP
\* session over it, or one of the two raises (ConnectOutcomes) and only
\* _connected is reset.  `connected` tells whether the session of the
\* SSHClient is open; `session` of the SFTP object tells whether it runs over
\* the session of the SSHClient self.client refers to ("client") or over that
\* of an SSHClient a later connect() replaced ("replaced").
Connect ==
    /\ OnlyRemote
    /\ \E outcome \in ConnectOutcomes, host \in Hosts, username \in Usernames :
         /\ ssh_client' = Some([connected |-> outcome # "connect_failed"])
         /\ IF outcome = "ok"
            THEN /\ ssh_sftp' = Some([session |-> "client"])
                 /\ ssh_host' = Some(host)
                 /\ ssh_username' = Some(username)
                 /\ ssh_connected' = TRUE
            ELSE /\ ssh_connected' = FALSE
                 /\ ssh_sftp' = (IF ssh_sftp = None THEN None
                                 ELSE Some([session |-> "replaced"]))
                 /\ UNCHANGED <<ssh_host, ssh_username>>
    /\ UNCHANGED <<ssh_sent, sftp_sent, ssh_calls>>

\* SSHConnection.disconnect()
Disconnect ==
    /\ OnlyRemote
    /\ ssh_sftp' = None
    /\ ssh_client' = None
    /\ ssh_connected' = FALSE
    /\ ssh_host' = None
    /\ ssh_username' = None
    /\ UNCHANGED <<ssh_sent, sftp_sent, ssh_calls>>

\* What exec_command returns for a command the SSH client ran: its exit
\* status with what it printed, or (False, "", str(e)) for an exception.
Executed(cmd) ==
    {<<TRUE, "stdout of " \o cmd, "">>,
     <<FALSE, "", "stderr of " \o cmd>>,
     <<FALSE, "", "error of " \o cmd>>}

\* exec_command running the command whatever is_connected() says.
ExecReturnsUnguarded(outcomes) == outcomes

\* What exec_command returns: the failure tuple on a connection that is not
\* connected, otherwise one of the outcomes of the command.
ExecReturns(outcomes) ==
    IF IsConnected THEN outcomes ELSE {<<FALSE, "", "Not connected to SSH">>}

\* What a method of SSHConnection that uses the SFTP session returns: `failure`
\* on a connection that is not connected or when the request raises,
\* otherwise one of `values`.
SftpReturns(values, failure) ==
    IF IsConnected THEN values \cup {failure} ELSE {failure}

\* The SFTP request of such a method, made only on a connected connection.
SftpRequest(op, path) ==
    sftp_sent' = IF IsConnected
                 THEN Append(sftp_sent, [op |-> op, path |-> path])
                 ELSE sftp_sent

\* RemoteExecutor.run_command(cmd)
RunCommand ==
    /\ OnlyRemote
    /\ Len(ssh_calls) < MaxCalls
    /\ \E cmd \in RemoteCommands :
         \E r \in ExecReturns(Executed(cmd)) :
            /\ ssh_calls' = Append(ssh_calls,
                   [verb |-> "run_command", arg |-> cmd, sudo_pass |-> "",
                    connected |-> IsConnected, ret |-> r])
            /\ ExecCommand(cmd, FALSE)
    /\ UNCHANGED <<ssh_client, ssh_sftp, ssh_host, ssh_username, ssh_connected,
                   sftp_sent>>

\* RemoteExecutor.run_sudo_command(cmd, sudo_pass)
RunSudoCommand ==
    /\ OnlyRemote
    /\ Len(ssh_calls) < MaxCalls
    /\ \E cmd \in RemoteCommands, sudo_pass \in SudoPasswords :
         \E r \in ExecReturns(Executed(cmd)) :
            /\ ssh_calls' = Append(ssh_calls,
                   [verb |-> "run_sudo_command", arg |-> cmd, sudo_pass |-> sudo_pass,
                    connected |-> IsConnected, ret |-> r])
            /\ ExecSudoCommand(cmd, sudo_pass)
    /\ UNCHANGED <<ssh_client, ssh_sftp, ssh_host, ssh_username, ssh_connected,
                   sftp_sent>>

\* What 'find' can return: paths one per line, nothing, or a failure.
FindOutcomes ==
    {<<TRUE, "/srv/app/dist/pyarmor_runtime_000000\n", "">>,
     <<TRUE, "/etc/a.service\n/etc/b.service\n", "">>,
     <<TRUE, "", "">>,
     <<FALSE, "", "">>}

\* The list glob_files makes of the result of 'find'.
GlobResult(r) ==
    IF r[1] /\ Strip(r[2]) # "" THEN Split(Strip(r[2]), "\n") ELSE <<>>

\* RemoteExecutor.glob_files(pattern)
GlobFiles ==
    /\ OnlyRemote
    /\ Len(ssh_calls) < MaxCalls
    /\ \E pattern \in GlobPatterns :
         \E r \in ExecReturns(FindOutcomes) :
            /\ ssh_calls' = Append(ssh_calls,
                   [verb |-> "glob_files", arg |-> pattern, sudo_pass |-> "",
                    connected |-> IsConnected, ret |-> GlobResult(r)])
            /\ ExecCommand(FindCommand(pattern), FALSE)
    /\ UNCHANGED <<ssh_client, ssh_sftp, ssh_host, ssh_username, ssh_connected,
                   sftp_sent>>

\* What 'stat -c %Y' can return: the time in seconds, something else, or a
\* failure.
StatOutcomes ==
    {<<TRUE, "1700000000\n", "">>, <<TRUE, "?\n", "">>, <<FALSE, "", "">>}

\* float(t) of a text of decimal digits; None where float() raises.
Float(t) ==
    IF t # "" /\ \A i \in 1..Len(t) :
                    SubSeq(t, i, i) \in {"0", "1", "2", "3", "4", "5", "6", "7", "8", "9"}
    THEN Some(t) ELSE None

\* The value get_file_mtime makes of the result of 'stat'.
MtimeResult(r) ==
    IF r[1] /\ Strip(r[2]) # "" THEN Float(Strip(r[2])) ELSE None

\* RemoteExecutor.get_file_mtime(path)
GetFileMtime ==
    /\ OnlyRemote
    /\ Len(ssh_calls) < MaxCalls
    /\ \E path \in MtimePaths :
         \E r \in ExecReturns(StatOutcomes) :
            /\ ssh_calls' = Append(ssh_calls,
                   [verb |-> "get_file_mtime", arg |-> path, sudo_pass |-> "",
                    connected |-> IsConnected, ret |-> MtimeResult(r)])
            /\ ExecCommand(StatCommand(path), FALSE)
    /\ UNCHANGED <<ssh_client, ssh_sftp, ssh_host, ssh_username, ssh_connected,
                   sftp_sent>>

\* The paths callers read, write and look at.
RemotePaths == {"/etc/systemd/system/app.service", "/srv/app"}

\* RemoteExecutor.read_file(path)
ReadFile ==
    /\ OnlyRemote
    /\ Len(ssh_calls) < MaxCalls
    /\ \E path \in RemotePaths :
         \E r \in SftpReturns({Some("[Service]\nUser=root")}, None) :
            /\ ssh_calls' = Append(ssh_calls,
                   [verb |-> "read_file", arg |-> path, sudo_pass |-> "",
                    connected |-> IsConnected, ret |-> r])
            /\ SftpRequest("open r", path)
    /\ UNCHANGED <<ssh_client, ssh_sftp, ssh_host, ssh_username, ssh_connected,
                   ssh_sent>>

\* RemoteExecutor.write_file(path, content)
WriteFile ==
    /\ OnlyRemote
    /\ Len(ssh_calls) < MaxCalls
    /\ \E path \in RemotePaths :
         \E r \in SftpReturns({TRUE}, FALSE) :
            /\ ssh_calls' = Append(ssh_calls,
                   [verb |-> "write_file", arg |-> path, sudo_pass |-> "",
                    connected |-> IsConnected, ret |-> r])
            /\ SftpRequest("open w", path)
    /\ UNCHANGED <<ssh_client, ssh_sftp, ssh_host, ssh_username, ssh_connected,
                   ssh_sent>>

\* RemoteExecutor.file_exists(path) and RemoteExecutor.is_dir(path)
StatPath ==
    /\ OnlyRemote
    /\ Len(ssh_calls) < MaxCalls
    /\ \E verb \in {"file_exists", "is_dir"}, path \in RemotePaths :
         \E r \in SftpReturns({TRUE}, FALSE) :
            /\ ssh_calls' = Append(ssh_calls,
                   [verb |-> verb, arg |-> path, sudo_pass |-> "",
                    connected |-> IsConnected, ret |-> r])
            /\ SftpRequest("stat", path)
    /\ UNCHANGED <<ssh_client, ssh_sftp, ssh_host, ssh_username, ssh_connected,
                   ssh_sent>>

\* RemoteExecutor.list_dir(path)
ListDir ==
    /\ OnlyRemote
    /\ Len(ssh_calls) < MaxCalls
    /\ \E path \in RemotePaths :
         \E r \in SftpReturns({<<"app", "pyarmor_runtime_000000">>}, <<>>) :
            /\ ssh_calls' = Append(ssh_calls,
                   [verb |-> "list_dir", arg |-> path, sudo_pass |-> "",
                    connected |-> IsConnected, ret |-> r])
            /\ SftpRequest("listdir", path)
    /\ UNCHANGED <<ssh_client, ssh_sftp, ssh_host, ssh_username, ssh_connected,
                   ssh_sent>>

InitRemote ==
    /\ cut = ThirdVersion
    /\ TabIdle /\ EncIdle /\ DepIdle /\ SSHConnectionInit /\ PyArmorDeployAppInit

NextRemote ==
    \/ Connect
    \/ Disconnect
    \/ RunCommand
    \/ RunSudoCommand
    \/ GlobFiles
    \/ GetFileMtime
    \/ ReadFile
    \/ WriteFile
    \/ StatPath
    \/ ListDir

SpecRemote == InitRemote /\ [][NextRemote]_vars

(***************************************************************************)
(* PyArmorDeployApp: connection dialog, worker starts, close                *)
(***************************************************************************)
MaxDialogs == 2

MaxRuns == 2

\* show_connection_dialog(): the dialog is cancelled, or Remote is chosen and
\* paramiko is not installed; nothing changes.
DialogRejected ==
    /\ OnlyApp
    /\ ~app_closed
    /\ Len(dialog_log) < MaxDialogs
    /\ \E why \in {"rejected", "no_paramiko"} :
         dialog_log' = Append(dialog_log, [choice |-> why, outcome |-> "none"])
    /\ UNCHANGED <<ssh_connections, executors, app_executor, app_ssh_connection,
                   is_remote, enc_tab_executor, svc_tab_executor, btn_encrypt,
                   btn_apply, enc_workers, dep_workers, app_closed>>

\* show_connection_dialog(), Remote chosen: a new SSHConnection takes the
\* place of self.ssh_connection and connects; when connect() returns, a new
\* RemoteExecutor on it becomes the executor of the application and of both
\* tabs; when it raises, the handler returns after the error dialog.
DialogRemote ==
    /\ OnlyApp
    /\ ~app_closed
    /\ Len(dialog_log) < MaxDialogs
    /\ \E outcome \in ConnectOutcomes, host \in Hosts, username \in Usernames :
         LET new == Len(ssh_connections) + 1
         IN /\ ssh_connections' = Append(ssh_connections,
                   ConnectionAfterConnect(NewSSHConnection, outcome, host, username))
            /\ app_ssh_connection' = Some(new)
            /\ dialog_log' = Append(dialog_log, [choice |-> "remote", outcome |-> outcome])
            /\ IF outcome = "ok"
               THEN /\ executors' = Append(executors, [kind |-> "remote", ssh |-> new])
                    /\ app_executor' = Len(executors) + 1
                    /\ is_remote' = TRUE
                    /\ enc_tab_executor' = Len(executors) + 1
                    /\ svc_tab_executor' = Len(executors) + 1
               ELSE UNCHANGED <<executors, app_executor, is_remote,
                                enc_tab_executor, svc_tab_executor>>
    /\ UNCHANGED <<btn_encrypt, btn_apply, enc_workers, dep_workers, app_closed>>

\* show_connection_dialog(), Local chosen: self.ssh_connection, if any, is
\* disconnected and forgotten, and a new LocalExecutor becomes the executor of
\* the application and of both tabs.
DialogLocal ==
    /\ OnlyApp
    /\ ~app_closed
    /\ Len(dialog_log) < MaxDialogs
    /\ ssh_connections' =
          IF app_ssh_connection # None
          THEN [ssh_connections EXCEPT ![app_ssh_connection[1]] =
                   ConnectionAfterDisconnect(ssh_connections[app_ssh_connection[1]])]
          ELSE ssh_connections
    /\ app_ssh_connection' = None
    /\ executors' = Append(executors, [kind |-> "local", ssh |-> 0])
    /\ app_executor' = Len(executors) + 1
    /\ is_remote' = FALSE
    /\ enc_tab_executor' = Len(executors) + 1
    /\ svc_tab_executor' = Len(executors) + 1
    /\ dialog_log' = Append(dialog_log, [choice |-> "local", outcome |-> "none"])
    /\ UNCHANGED <<btn_encrypt, btn_apply, enc_workers, dep_workers, app_closed>>

\* closeEvent(): self.ssh_connection, if any, is disconnected.
CloseEvent ==
    /\ OnlyApp
    /\ ~app_closed
    /\ ssh_connections' =
          IF app_ssh_connection # None
          THEN [ssh_connections EXCEPT ![app_ssh_connection[1]] =
                   ConnectionAfterDisconnect(ssh_connections[app_ssh_connection[1]])]
          ELSE ssh_connections
    /\ app_closed' = TRUE
    /\ UNCHANGED <<executors, app_executor, app_ssh_connection, is_remote,
                   enc_tab_executor, svc_tab_executor, btn_encrypt, btn_apply,
                   enc_workers, dep_workers, dialog_log>>

\* start_encryption(): a click on the enabled Encrypt button, the folder
\* given and found on the target, re-encryption accepted.
AppStartEncryption ==
    /\ OnlyApp
    /\ ~app_closed
    /\ btn_encrypt
    /\ Len(enc_workers) < MaxRuns
    /\ LET o == StartWorker(enc_workers, enc_tab_executor)
       IN /\ btn_encrypt' = o.button
          /\ enc_workers' = o.workers
    /\ UNCHANGED <<ssh_connections, executors, app_executor, app_ssh_connection,
                   is_remote, enc_tab_executor, svc_tab_executor, btn_apply,
                   dep_workers, app_closed, dialog_log>>

\* EncryptionWorker.run() reaches one of its finished_signal.emit calls.
EncWorkerFinishes ==
    /\ OnlyApp
    /\ ~app_closed
    /\ \E i \in 1..Len(enc_workers) :
         /\ enc_workers[i].state = "running"
         /\ enc_workers' = Emitted(enc_workers, i)
    /\ UNCHANGED <<ssh_connections, executors, app_executor, app_ssh_connection,
                   is_remote, enc_tab_executor, svc_tab_executor, btn_encrypt,
                   btn_apply, dep_workers, app_closed, dialog_log>>

\* apply_changes(): a click on the enabled Apply button, the fields filled,
\* the dist path found and the confirmation answered Yes.
AppApplyChanges ==
    /\ OnlyApp
    /\ ~app_closed
    /\ btn_apply
    /\ Len(dep_workers) < MaxRuns
    /\ LET o == StartWorker(dep_workers, svc_tab_executor)
       IN /\ btn_apply' = o.button
          /\ dep_workers' = o.workers
    /\ UNCHANGED <<ssh_connections, executors, app_executor, app_ssh_connection,
                   is_remote, enc_tab_executor, svc_tab_executor, btn_encrypt,
                   enc_workers, app_closed, dialog_log>>

\* ServiceConfigWorker.run() reaches one of its finished_signal.emit calls.
DepWorkerFinishes ==
    /\ OnlyApp
    /\ ~app_closed
    /\ \E i \in 1..Len(dep_workers) :
         /\ dep_workers[i].state = "running"
         /\ dep_workers' = Emitted(dep_workers, i)
    /\ UNCHANGED <<ssh_connections, executors, app_executor, app_ssh_connection,
                   is_remote, enc_tab_executor, svc_tab_executor, btn_encrypt,
                   btn_apply, enc_workers, app_closed, dialog_log>>

InitApp ==
    /\ cut = ThirdVersion
    /\ TabIdle /\ EncIdle /\ DepIdle /\ SSHConnectionInit /\ PyArmorDeployAppInit

NextApp ==
    \/ DialogRejected
    \/ DialogRemote
    \/ DialogLocal
    \/ CloseEvent
    \/ AppStartEncryption
    \/ EncWorkerFinishes
    \/ OnEncryptionFinished
    \/ AppApplyChanges
    \/ DepWorkerFinishes
    \/ OnApplyFinished

SpecApp == InitApp /\ [][NextApp]_vars

(***************************************************************************)
(* Properties of the unit-file transformer                                 *)
(***************************************************************************)
\* The least element of a non-empty set of numbers.
Min(S) == CHOOSE i \in S : \A j \in S : i <= j

\* The call of generate_new_service_content a state is checked for: the latest
\* one.  A record of gen_log never changes once it is appended, so every call
\* is the latest one in the state that follows it, and what holds of the
\* latest call in every reachable state holds of every call.
Latest == IF gen_log = <<>> THEN {} ELSE {Len(gen_log)}

\* The latest call, when it did not fall back.
LatestRewrite == {i \in Latest : ~UsesFallback(gen_log[i].original)}

IsHeaderLine(line) == IsSectionHeader(Strip(line))

IsServiceHeader(line) == Strip(line) = "[Service]"

IsWorkingDirLine(line) == ~IsHeaderLine(line) /\ StartsWith(Strip(line), "WorkingDirectory=")

IsUserLine(line) == ~IsHeaderLine(line) /\ StartsWith(Strip(line), "User=")

IsGroupLine(line) == ~IsHeaderLine(line) /\ StartsWith(Strip(line), "Group=")

IsExecStartLine(line) == StartsWith(Strip(line), "ExecStart=")

IsPythonPathEnv(line) == ~IsHeaderLine(line) /\ IsPythonPathLine(Strip(line))

\* A Key=Value line whose key is none of the five the tool recognises.
IsUnknownDirective(line) ==
    LET stripped == Strip(line) IN
    /\ Contains(stripped, "=")
    /\ ~IsSectionHeader(stripped)
    /\ \A key \in {"WorkingDirectory=", "ExecStart=", "Environment=", "User=", "Group="} :
          ~StartsWith(stripped, key)

HasUnknownDirective(lines) == \E l \in Range(lines) : IsUnknownDirective(l)

\* The lines the claims call passthrough lines: every line but the
\* WorkingDirectory=, User=, Group= and PYTHONPATH Environment= lines.
IsPassthroughLine(line) ==
    ~(IsWorkingDirLine(line) \/ IsUserLine(line) \/ IsGroupLine(line) \/ IsPythonPathEnv(line))

\* The number of Environment lines that hold PYTHONPATH among the lines of a text.
PythonPathCount(lines) == Len(SelectSeq(lines, IsPythonPathEnv))

ServiceHeaderCount(lines) == Len(SelectSeq(lines, IsServiceHeader))

\* No target changes: the working directory, the PYTHONPATH value and the user
\* the tool computes are the ones the parsed text already holds.
NoTargetChanges(g) ==
    /\ g.config.WorkingDirectory \in {"", g.working_dir}
    /\ \E e \in Range(g.config.Environment) : Contains(e, "PYTHONPATH")
    /\ \A e \in Range(g.config.Environment) :
          Contains(e, "PYTHONPATH")
              => e \in {"PYTHONPATH=" \o g.dist, "\"PYTHONPATH=" \o g.dist \o "\""}
    /\ \/ g.user = ""
       \/ g.config.User \in {"", g.user} /\ g.config.Group \in {"", g.user}

\* Every line the tool rewrites is already written the way the tool writes it.
WrittenAsRewritten(g) ==
    \A l \in Range(g.original_lines) :
        /\ IsWorkingDirLine(l) => l = "WorkingDirectory=" \o g.working_dir
        /\ (IsUserLine(l) /\ g.user # "") => l = "User=" \o g.user
        /\ (IsGroupLine(l) /\ g.user # "") => l = "Group=" \o g.user
        /\ IsPythonPathEnv(l) => l = PythonPathLine(g.dist)

\* Line h of lines follows a [Service] header with no header in between.
InServiceSection(lines, h) ==
    \E k \in 1..(h - 1) :
        /\ IsServiceHeader(lines[k])
        /\ \A m \in (k + 1)..(h - 1) : ~IsHeaderLine(lines[m])

\* A PYTHONPATH line is read before a [Service] section ends, and the text has
\* one if it has a [Service] header: the tool adds no line.
PythonPathInPlace(lines) ==
    /\ (\E k \in 1..Len(lines) : IsServiceHeader(lines[k]))
           => \E m \in 1..Len(lines) : IsPythonPathEnv(lines[m])
    /\ \A h \in 1..Len(lines) :
          (IsHeaderLine(lines[h]) /\ ~IsServiceHeader(lines[h]) /\ InServiceSection(lines, h))
              => \E m \in 1..(h - 1) : IsPythonPathEnv(lines[m])

\* C1 as claimed: a text with unknown directives is returned character for
\* character by parse + generate whenever there are no target changes.
C1_RoundTripAsClaimed ==
    \A i \in LatestRewrite :
        (HasUnknownDirective(gen_log[i].original_lines) /\ NoTargetChanges(gen_log[i]))
            => gen_log[i].output = gen_log[i].original

\* C1 (amended): a text with unknown directives is returned character for
\* character by parse + generate when every WorkingDirectory=, User=, Group=
\* and PYTHONPATH Environment= line is already written exactly as the tool
\* writes it and the tool has no PYTHONPATH line to add.
C1_RoundTrip ==
    \A i \in LatestRewrite :
        (/\ HasUnknownDirective(gen_log[i].original_lines)
         /\ WrittenAsRewritten(gen_log[i])
         /\ PythonPathInPlace(gen_log[i].original_lines))
            => gen_log[i].output = gen_log[i].original

C1_RoundTripWitness ==
    \E i \in LatestRewrite :
        /\ HasUnknownDirective(gen_log[i].original_lines)
        /\ WrittenAsRewritten(gen_log[i])
        /\ PythonPathInPlace(gen_log[i].original_lines)
        /\ \E l \in Range(gen_log[i].original_lines) : IsWorkingDirLine(l)
        /\ \E l \in Range(gen_log[i].original_lines) : IsPythonPathEnv(l)
        /\ \E l \in Range(gen_log[i].original_lines) : IsServiceHeader(l)
        /\ gen_log[i].output = gen_log[i].original

\* C2: on the non-fallback path the passthrough lines of the input are the
\* passthrough lines of the output, unchanged and in the same order.
C2_Passthrough ==
    \A i \in LatestRewrite :
        SelectSeq(gen_log[i].output_lines, IsPassthroughLine)
            = SelectSeq(gen_log[i].original_lines, IsPassthroughLine)

C2_PassthroughWitness ==
    \E i \in LatestRewrite :
        /\ gen_log[i].output # gen_log[i].original
        /\ \E l \in Range(gen_log[i].original_lines) :
              IsPassthroughLine(l) /\ Strip(l) # l
        /\ \E l \in Range(gen_log[i].original_lines) : IsHeaderLine(l)
        /\ \E l \in Range(gen_log[i].original_lines) : ~IsPassthroughLine(l)

\* C3 as claimed: for any input text, the empty and the unreadable one
\* included, the ExecStart lines of the output are those of the input.
C3_ExecStartAsClaimed ==
    \A i \in Latest :
        SelectSeq(gen_log[i].output_lines, IsExecStartLine)
            = SelectSeq(gen_log[i].original_lines, IsExecStartLine)

\* C3 (amended): for any input text that takes the non-fallback path, the
\* ExecStart lines of the output are exactly those of the input.
C3_ExecStartInvariant ==
    \A i \in LatestRewrite :
        SelectSeq(gen_log[i].output_lines, IsExecStartLine)
            = SelectSeq(gen_log[i].original_lines, IsExecStartLine)

C3_ExecStartWitness ==
    \E i \in LatestRewrite :
        /\ SelectSeq(gen_log[i].original_lines, IsExecStartLine) # <<>>
        /\ gen_log[i].output # gen_log[i].original

\* The places of the line Environment="PYTHONPATH=<dist>" in the output.
AddedAt(g) ==
    {k \in 1..Len(g.output_lines) : g.output_lines[k] = PythonPathLine(g.dist)}

\* C5 as claimed: a text with a [Service] header and no PYTHONPATH line gets
\* exactly one new PYTHONPATH line, immediately after the [Service] header.
C5_PlacementAsClaimed ==
    \A i \in LatestRewrite :
        (ServiceHeaderCount(gen_log[i].original_lines) >= 1
         /\ PythonPathCount(gen_log[i].original_lines) = 0)
            => /\ Cardinality(AddedAt(gen_log[i])) = 1
               /\ \A k \in AddedAt(gen_log[i]) :
                     k > 1 /\ IsServiceHeader(gen_log[i].output_lines[k - 1])

\* C5 (amended): a text with one [Service] header and no PYTHONPATH line gets
\* exactly one new PYTHONPATH line, inside the [Service] section: immediately
\* before the next section header when a section follows, and immediately
\* after the [Service] header when none does.
C5_Placement ==
    \A i \in LatestRewrite :
        (ServiceHeaderCount(gen_log[i].original_lines) = 1
         /\ PythonPathCount(gen_log[i].original_lines) = 0)
            => LET out == gen_log[i].output_lines
                   header == CHOOSE k \in 1..Len(out) : IsServiceHeader(out[k])
                   later == {h \in (header + 1)..Len(out) : IsHeaderLine(out[h])}
               IN /\ Cardinality(AddedAt(gen_log[i])) = 1
                  /\ PythonPathCount(gen_log[i].output_lines) = 1
                  /\ \A k \in AddedAt(gen_log[i]) :
                        k = IF later # {} THEN Min(later) - 1 ELSE header + 1

C5_PlacementWitness ==
    \E i \in LatestRewrite :
        /\ ServiceHeaderCount(gen_log[i].original_lines) = 1
        /\ PythonPathCount(gen_log[i].original_lines) = 0
        /\ LET out == gen_log[i].output_lines
               header == CHOOSE k \in 1..Len(out) : IsServiceHeader(out[k])
           IN \E k \in AddedAt(gen_log[i]) :
                 k > header + 1 /\ k < Len(out) /\ IsHeaderLine(out[k + 1])

\* The pairs of calls in which the second transforms the output of the first,
\* a text without PYTHONPATH line, with the same dist path.
ReRuns ==
    {p \in (1..Len(gen_log)) \X Latest :
        /\ p[1] < p[2]
        /\ PythonPathCount(gen_log[p[1]].original_lines) = 0
        /\ gen_log[p[2]].original = gen_log[p[1]].output
        /\ gen_log[p[2]].dist = gen_log[p[1]].dist}

SecondRuns ==
    {p \in (1..Len(gen_log)) \X Latest :
        /\ p[1] < p[2]
        /\ ~UsesFallback(gen_log[p[1]].original)
        /\ gen_log[p[1]].config = ParseServiceContent(gen_log[p[1]].original)
        /\ gen_log[p[2]].original = gen_log[p[1]].output
        /\ gen_log[p[2]].config = ParseServiceContent(gen_log[p[1]].output)
        /\ gen_log[p[2]].dist = gen_log[p[1]].dist
        /\ gen_log[p[2]].project_folder = gen_log[p[1]].project_folder
        /\ gen_log[p[2]].user = gen_log[p[1]].user}

\* The components of a path.
PathParts(path) == Range(Split(path, "/"))

\* C25, where the project folder is no component of the dist path and the
\* original WorkingDirectory has no empty component after the project folder
\* (no doubled or trailing slash): the second transformation returns the
\* text of the first.
C25_IdempotentOutsideProject ==
    \A p \in SecondRuns :
        LET g == gen_log[p[1]] IN
        (/\ g.project_folder # None => g.project_folder[1] \notin PathParts(g.dist)
         /\ g.working_dir = g.dist \/ StartsWith(g.working_dir, g.dist \o "/"))
            => /\ gen_log[p[2]].output = g.output
               /\ gen_log[p[2]].working_dir = g.working_dir

\* C25: parsing the output of generate_new_service_content and transforming
\* it again with the same dist path, the same detected project folder and
\* the same user returns the same text, and the WorkingDirectory is the same
\* after the second run, also when the dist path itself has a component equal
\* to the project folder name.
C25_IdempotentAsClaimed ==
    \A p \in SecondRuns :
        /\ gen_log[p[2]].output = gen_log[p[1]].output
        /\ gen_log[p[2]].working_dir = gen_log[p[1]].working_dir

RECURSIVE PathJoinAll(_, _)
\* os.path.join(base, *parts): base joined with one component after the other.
PathJoinAll(base, parts) ==
    IF parts = <<>> THEN base
    ELSE PathJoinAll(PathJoin(base, Head(parts)), Tail(parts))

\* The working directory C4 describes for one call.
ClaimedWorkingDir(g) ==
    LET found == DetectProjectFolder(g.entries)
        parts == Split(g.config.WorkingDirectory, "/")
        first == ProjectIdx(parts, found[1])
    IN IF found = None THEN g.dist
       ELSE IF first = 0 \/ first = Len(parts) THEN PathJoin(g.dist, found[1])
       ELSE PathJoinAll(PathJoin(g.dist, found[1]),
                        SubSeq(parts, first + 1, Len(parts)))

\* C4: the new working directory is dist joined with the project folder P and
\* with every path component that follows the first component P of the
\* original WorkingDirectory; dist/P when P is absent or last; dist when no
\* project folder is detected.
C4_WorkingDirAsClaimed ==
    \A i \in Latest : gen_log[i].working_dir = ClaimedWorkingDir(gen_log[i])

\* C4 for the paths the code computes it for: whenever the original
\* WorkingDirectory has no empty component in its middle (no '//'), the new
\* working directory is the one C4 describes.
C4_WorkingDirNormalised ==
    \A i \in Latest :
        ~Contains(gen_log[i].config.WorkingDirectory, "//")
            => gen_log[i].working_dir = ClaimedWorkingDir(gen_log[i])

\* The latest call, when parse_service had left the text empty or 'Could not
\* read service file: ...'.
LatestUnread ==
    {i \in Latest : \/ gen_log[i].original = ""
                    \/ StartsWith(gen_log[i].original, "Could not read service file: ")}

\* How many of the lines are the line l.
CountOf(lines, l) == Cardinality({i \in 1..Len(lines) : lines[i] = l})

\* C18, the content: when the source unit file could not be read,
\* generate_new_service_content returns a unit with the sections [Unit],
\* [Service] and [Install], in this order and no other, whose User and Group
\* are the requested user, whose PYTHONPATH is the dist path, whose
\* WorkingDirectory is the computed working directory and whose ExecStart is
\* '/usr/bin/python3 main.py'.
C18_FallbackContent ==
    \A i \in LatestUnread :
        LET g == gen_log[i]
            ls == g.output_lines
        IN /\ SelectSeq(ls, IsHeaderLine) = <<"[Unit]", "[Service]", "[Install]">>
           /\ CountOf(ls, "User=" \o g.user) = 1
           /\ CountOf(ls, "Group=" \o g.user) = 1
           /\ CountOf(ls, "Environment=\"PYTHONPATH=" \o g.dist \o "\"") = 1
           /\ CountOf(ls, "WorkingDirectory=" \o g.working_dir) = 1
           /\ CountOf(ls, "ExecStart=/usr/bin/python3 main.py") = 1
           /\ \A k \in 1..Len(ls) :
                 (IsUserLine(ls[k]) \/ IsGroupLine(ls[k]) \/ IsPythonPathEnv(ls[k])
                    \/ IsWorkingDirLine(ls[k]) \/ IsExecStartLine(ls[k]))
                 => InServiceSection(ls, k)

\* C18: when the source unit file could not be read,
\* generate_new_service_content returns the synthesized minimal unit described
\* above, and the caller is warned, by a log line or by a dialog, that custom
\* directives are discarded: apply_changes logs a line or shows a dialog
\* other than the confirmation it shows for every unit.
C18_FallbackWarnsAsClaimed ==
    /\ C18_FallbackContent
    /\ \A i \in LatestUnread :
          \/ gen_log[i].logged # <<>>
          \/ \E k \in 1..Len(gen_log[i].dialogs) : gen_log[i].dialogs[k].kind # "question"

\* A User= or Group= line.
IsUserOrGroupLine(line) == IsUserLine(line) \/ IsGroupLine(line)

\* What the claim makes of a User= or Group= line for the requested user.
UserOrGroupAsClaimed(line, user) ==
    IF user = "" THEN line
    ELSE IF IsUserLine(line) THEN "User=" \o user ELSE "Group=" \o user

\* C19: in the non-fallback path, if the requested user is non-empty then
\* every User= line becomes 'User=<user>' and every Group= line becomes
\* 'Group=<user>'; if the requested user is empty then every User= and Group=
\* line of the input appears unchanged in the output.  The User= and Group=
\* lines of the output are those lines, in the order of the input.
C19_UserGroupRewritten ==
    \A i \in LatestRewrite :
        LET g == gen_log[i]
            before == SelectSeq(g.original_lines, IsUserOrGroupLine)
        IN SelectSeq(g.output_lines, IsUserOrGroupLine)
              = [k \in 1..Len(before) |-> UserOrGroupAsClaimed(before[k], g.user)]

\* A unit with a User= and a Group= line of another identity was rewritten
\* for a requested user.
C19_UserGroupRewrittenWitness ==
    \E i \in LatestRewrite :
        /\ gen_log[i].user # ""
        /\ "User=root" \in Range(gen_log[i].original_lines)
        /\ "Group=www" \in Range(gen_log[i].original_lines)
        /\ "Group=" \o gen_log[i].user \in Range(gen_log[i].output_lines)

\* The entry is a directory whose name does not start with 'pyarmor_runtime'.
IsCandidate(entry) ==
    /\ entry.dir
    /\ ~(Len(entry.name) >= 15 /\ SubSeq(entry.name, 1, 15) = "pyarmor_runtime")

\* The names of the entries of a listing.
EntryNames(entries) == {entries[i].name : i \in 1..Len(entries)}

\* C23: _detect_project_folder(dist) returns the first entry, in the order
\* given by list_dir(dist), that is a directory and whose name does not start
\* with 'pyarmor_runtime', and returns None when there is no such entry (dist
\* empty, inaccessible, or holding only runtime directories and files); with
\* the directories pyarmor_runtime_2024 and myapp it returns myapp whatever
\* their order.
C23_ProjectFolderDetection ==
    \A i \in Latest :
        LET g == gen_log[i]
            n == Len(g.entries)
        IN /\ (\A k \in 1..n : ~IsCandidate(g.entries[k])) => g.project_folder = None
           /\ \A k \in 1..n :
                 (IsCandidate(g.entries[k])
                    /\ \A j \in 1..(k - 1) : ~IsCandidate(g.entries[j]))
                 => g.project_folder = Some(g.entries[k].name)
           /\ (n = 2 /\ EntryNames(g.entries) = {"pyarmor_runtime_2024", "myapp"}
                    /\ \A k \in 1..n : g.entries[k].dir)
                 => g.project_folder = Some("myapp")

\* The detection ran on a listing of two candidate folders and kept the first.
C23_ProjectFolderDetectionWitness ==
    \E i \in Latest :
        /\ Len(gen_log[i].entries) = 2
        /\ \A k \in 1..2 : IsCandidate(gen_log[i].entries[k])
        /\ gen_log[i].project_folder = Some(gen_log[i].entries[1].name)

\* C26, for a text that was parsed: on a backend where the unit files are
\* readable, the fallback is used only when no text is stored at Apply time,
\* and a stored text is the text of the unit file as it was parsed.
C26_FallbackOnlyWithoutText ==
    \A i \in Latest :
        (reads_succeed /\ UsesFallback(gen_log[i].original))
            => gen_log[i].original = ""

\* C26: for every sequence of service selection, Parse and Apply events, if
\* the unit file of the service selected at Apply time is readable on the
\* active backend, the text handed to the deployment is derived from that
\* file's lines and is not the synthesized minimal unit, also when Apply is
\* pressed without pressing Parse or after the service name was changed
\* following a parse.
C26_ReadableNeverReplacedAsClaimed ==
    \A i \in Latest :
        reads_succeed =>
            /\ ~UsesFallback(gen_log[i].original)
            /\ gen_log[i].output
                  # GenerateFallbackServiceContent(gen_log[i].service,
                        gen_log[i].working_dir, gen_log[i].dist, gen_log[i].user)

\* A step of parse_service that stored something: the text shown or the
\* parsed configuration changed, and the step is no selection of a service,
\* no Apply and no installation.
ParseStored ==
    /\ combo_service' = combo_service
    /\ gen_log' = gen_log
    /\ worker_config' = worker_config
    /\ unit_file' = unit_file
    /\ <<txt_current_config, current_service_config>>'
          # <<txt_current_config, current_service_config>>

\* What parse_service leaves when a read succeeded and when none did: the
\* text of the unit file, shown and parsed, or the marker, with the parsed
\* configuration left as it was.
StoredAsRead ==
    \/ /\ unit_file # ""
       /\ txt_current_config' = SetText(unit_file)
       /\ current_service_config' = ParseServiceContent(unit_file)
    \/ /\ txt_current_config' = "Could not read service file: " \o ServicePath(combo_service)
       /\ current_service_config' = current_service_config

\* C27, on the local backend: whatever parse_service stores is the text of
\* the unit file, which one of the three attempts read, or, when all of them
\* failed, the 'Could not read service file' marker with
\* parse_service_content not called.
C27_LocalParseStoresReadText ==
    [][(ParseStored /\ executors[svc_tab_executor].kind = "local") => StoredAsRead]_vars

\* C27: a unit file is treated as parsed only if a read succeeded: if
\* read_file, the unprivileged 'cat' and the privileged 'cat' all fail, then
\* whatever the failed commands printed, the stored current-config text is
\* the 'Could not read service file' marker and parse_service_content is not
\* called; the output of a failed command is never used as unit-file content.
C27_ParsedOnlyIfReadAsClaimed ==
    [][ParseStored => StoredAsRead]_vars

(***************************************************************************)
(* Properties of the worker threads                                        *)
(***************************************************************************)
\* The first command of the run was the configuration command and it did not
\* succeed.
ConfigureFailed ==
    /\ enc_calls # <<>>
    /\ enc_calls[1].cmd = CfgCommand
    /\ ~enc_calls[1].result.success

\* C7: in every run of EncryptionWorker.run in which 'pyarmor cfg
\* data_files=*' does not succeed, the run ends with finished_signal(False, "")
\* and neither 'rm -rf <project>/dist' nor 'pyarmor gen' is ever issued.  (The
\* configuration command is the first command of every run.)
C7_HaltsOnConfigureFailure ==
    /\ enc_calls # <<>> => enc_calls[1].cmd = CfgCommand
    /\ ConfigureFailed =>
          /\ enc_pc = "done"
          /\ enc_finished = <<[success |-> FALSE, dist_path |-> ""]>>
          /\ \A k \in 1..Len(enc_calls) :
                enc_calls[k].cmd \notin {RmCommand(enc_folder), EncCommand(enc_folder)}

\* A run whose configuration command failed, printing on both streams, on a
\* target that holds a dist folder.
C7_HaltsOnConfigureFailureWitness ==
    /\ ConfigureFailed
    /\ enc_calls[1].result.stdout # "" /\ enc_calls[1].result.stderr # ""
    /\ dist_exists
    /\ enc_pc = "done"

\* The calls of the privileged move in the run, by their place in dep_calls.
Moves == {k \in 1..Len(dep_calls) : dep_calls[k].cmd = MvCommand(dep_service)}

\* C8: in every run of ServiceConfigWorker.run in which the privileged
\* 'mv /tmp/<service> /etc/systemd/system/<service>' does not succeed, the run
\* reports finished_signal(False) and neither 'systemctl daemon-reload' nor
\* 'systemctl restart <service>' is ever invoked.
C8_AbortsOnFailedMove ==
    \A m \in Moves :
        ~dep_calls[m].result.success =>
            /\ dep_pc = "done"
            /\ dep_finished = <<FALSE>>
            /\ \A k \in 1..Len(dep_calls) :
                  dep_calls[k].cmd \notin {ReloadCommand, RestartCommand(dep_service)}

\* A run whose temp file was written and whose move failed.
C8_AbortsOnFailedMoveWitness ==
    /\ \E m \in Moves : ~dep_calls[m].result.success /\ dep_calls[m].result.stderr # ""
    /\ dep_calls[1].result.success
    /\ dep_pc = "done"

\* The text t, when not empty, is part of a line the worker emitted.
Logged(t) == t = "" \/ \E k \in 1..Len(dep_log) : Contains(dep_log[k], t)

\* The run is over and its move succeeded.
MovedAndDone ==
    /\ dep_pc = "done"
    /\ \E m \in Moves : dep_calls[m].result.success

\* The commands of the run, in the order they were issued.
DepCommands == [k \in 1..Len(dep_calls) |-> dep_calls[k].cmd]

\* C9, its first half: whenever the move succeeds, the run issues
\* daemon-reload and then restart whatever the reload returns, and reports
\* finished_signal(True) whatever both return.
C9_ReloadRestartNotFatal ==
    MovedAndDone =>
        /\ DepCommands = <<TempPath(dep_service), MvCommand(dep_service),
                           ReloadCommand, RestartCommand(dep_service)>>
        /\ dep_finished = <<TRUE>>

\* C9: whenever the move succeeds, the run issues daemon-reload and then
\* restart regardless of the reload result, reports finished_signal(True)
\* regardless of both results, and the stdout and the stderr of each of the
\* steps move, daemon-reload and restart are emitted as log lines.
C9_ResultsLoggedAsClaimed ==
    MovedAndDone =>
        /\ DepCommands = <<TempPath(dep_service), MvCommand(dep_service),
                           ReloadCommand, RestartCommand(dep_service)>>
        /\ dep_finished = <<TRUE>>
        /\ \A k \in 2..Len(dep_calls) :
              /\ Logged(dep_calls[k].result.stdout)
              /\ Logged(dep_calls[k].result.stderr)

\* The privileged commands of the run, by their place in dep_calls.
SudoCalls == {k \in 1..Len(dep_calls) : dep_calls[k].verb = "run_sudo_command"}

\* The lines of the log that show a command.
ExecutingLines ==
    {dep_log[k] : k \in {j \in 1..Len(dep_log) : StartsWith(dep_log[j], "Executing: ")}}

\* C11, its first part: no line emitted during a deployment run contains the
\* raw sudo secret.
C11_RawSecretNeverLogged ==
    dep_pc # "idle" => \A k \in 1..Len(dep_log) : ~Contains(dep_log[k], dep_sudo_pass)

\* C11: no log line emitted during a deployment run contains the raw secret;
\* the 'Executing:' line shows the privileged command with the secret replaced
\* by '******'; and the lines that show the command text are the same in two
\* runs that differ only in the secret, that is, each is the text of the
\* command with '******' where the secret was given, whatever the secret is.
C11_NoSecretInLogAsClaimed ==
    dep_pc # "idle" =>
        /\ \A k \in 1..Len(dep_log) : ~Contains(dep_log[k], dep_sudo_pass)
        /\ ExecutingLines \subseteq
              {"Executing: " \o SudoText(dep_calls[k].cmd, "******") : k \in SudoCalls}

\* The worker was not started: nothing was written and no command was issued.
NothingMutated ==
    /\ dep_pc = "idle"
    /\ worker_config = None
    /\ dep_calls = <<>>
    /\ dep_log = <<>>

\* C12, for a missing path: if the dist field is empty or the dist path does
\* not exist on the target, apply_changes starts no worker, so that nothing
\* is written to /tmp/<service> and no privileged command is issued.
C12_MissingTargetBlocks ==
    (input_encrypted_folder = "" \/ dist_kind = "missing") => NothingMutated

\* C12: if the dist path given to apply_changes does not denote an existing
\* directory on the target (it is missing, or it is a regular file), no
\* ServiceConfigWorker is started, no write_file to /tmp/<service> happens and
\* no privileged command is issued.
C12_InvalidTargetBlocksAsClaimed ==
    dist_kind # "dir" => NothingMutated

\* The operations of a deployment run, in the order of the claim.
DeploySteps(service_name) ==
    <<TempPath(service_name), MvCommand(service_name), ReloadCommand,
      RestartCommand(service_name)>>

\* The place in run() a log line speaks of: 0 for the header, the number of
\* the operation for a line that announces it, shows its command or carries
\* what it printed, 5 for the closing line.
StepOfLine(line, service_name) ==
    IF line = "--- Updating Service Configuration ---" THEN 0
    ELSE IF line = "Service configuration updated successfully!" THEN 5
    ELSE IF Contains(line, RestartCommand(service_name))
            \/ StartsWith(line, "Restarting ") THEN 4
    ELSE IF Contains(line, ReloadCommand) \/ StartsWith(line, "Reloading ") THEN 3
    ELSE IF Contains(line, MvCommand(service_name))
            \/ StartsWith(line, "Moving to: ")
            \/ StartsWith(line, "Failed to move service file") THEN 2
    ELSE IF Contains(line, TempPath(service_name))
            \/ line = "Failed to write temp service file" THEN 1
    ELSE 6

\* The place in run() of an event of the trace.
StepOfEvent(e, service_name) ==
    IF e.event = "log" THEN StepOfLine(e.line, service_name)
    ELSE CHOOSE k \in 1..4 : DeploySteps(service_name)[k] = e.line

\* The places of the trace where an operation is called.
CallEvents == {p \in 1..Len(dep_trace) : dep_trace[p].event = "call"}

\* C24: in every run of ServiceConfigWorker.run the operations are issued in
\* the order write_file(/tmp/<service>), privileged mv, privileged
\* 'systemctl daemon-reload', privileged 'systemctl restart <service>'; each
\* call is followed by its return before anything else happens, so that no
\* operation is issued before the previous one returned; and the log lines
\* are emitted in the order of the operations they speak of, none before the
\* return of the operation before and none after the call of the operation
\* after.
C24_StepsInSequence ==
    /\ \A k \in 1..Len(dep_calls) : dep_calls[k].cmd = DeploySteps(dep_service)[k]
    /\ SelectSeq(dep_trace, LAMBDA e : e.event = "call")
          = [k \in 1..Len(dep_calls) |-> [event |-> "call", line |-> dep_calls[k].cmd]]
    /\ \A p \in CallEvents :
          /\ p < Len(dep_trace)
          /\ dep_trace[p + 1] = [event |-> "return", line |-> dep_trace[p].line]
    /\ \A p \in 1..Len(dep_trace) :
          dep_trace[p].event = "return" => p - 1 \in CallEvents
    /\ SelectSeq(dep_trace, LAMBDA e : e.event = "log")
          = [k \in 1..Len(dep_log) |-> [event |-> "log", line |-> dep_log[k]]]
    /\ \A p \in 1..Len(dep_trace) : StepOfEvent(dep_trace[p], dep_service) < 6
    /\ \A p \in 1..(Len(dep_trace) - 1) :
          StepOfEvent(dep_trace[p], dep_service)
             <= StepOfEvent(dep_trace[p + 1], dep_service)

\* A finished run of four operations, each of which printed something.
C24_StepsInSequenceWitness ==
    /\ dep_pc = "done"
    /\ Len(dep_calls) = 4
    /\ \A k \in 2..4 : dep_calls[k].result.stdout # ""
    /\ Len(dep_trace) > 12

\* The text t, when not empty, is part of a line the EncryptionWorker emitted.
EncLogged(t) == t = "" \/ \E k \in 1..Len(enc_log) : Contains(enc_log[k], t)

\* The command of the call and what it printed are in the log.
Transcribed(call) ==
    /\ EncLogged(call.cmd)
    /\ EncLogged(call.result.stdout)
    /\ EncLogged(call.result.stderr)

\* C20, for the steps Configuring and Encrypting: the command text and the
\* captured stdout and stderr of the step are in the log as soon as the step
\* is over, whether it succeeded or not.
C20_ConfigureEncryptTranscript ==
    \A k \in 1..Len(enc_calls) :
        enc_calls[k].cmd # RmCommand(enc_folder) => Transcribed(enc_calls[k])

\* C20: in every encryption run, for each of the steps Configuring, Cleaning
\* and Encrypting that is executed, the command text and the captured stdout
\* and stderr of that step are emitted as log lines before the step's success
\* decides the next transition: they are in the log in the state the step
\* leaves, so that a failed run's log contains the command and the output of
\* the failing step.
C20_FullTranscriptAsClaimed ==
    \A k \in 1..Len(enc_calls) : Transcribed(enc_calls[k])

\* The calls of the run that issued cmd, by their place in enc_calls.
EncCallsOf(cmd) == {k \in 1..Len(enc_calls) : enc_calls[k].cmd = cmd}

\* Some call of the run issued cmd and it succeeded.
EncSucceeded(cmd) == \E k \in EncCallsOf(cmd) : enc_calls[k].result.success

\* What the claims name the terminal states of a run.
EncSucceededSignal == [success |-> TRUE, dist_path |-> DistPath(enc_folder)]

EncFailedSignal == [success |-> FALSE, dist_path |-> ""]

\* C21: every encryption run emits finished_signal exactly once: nothing is
\* emitted while the run is under way and one emission stands when it is over;
\* the emission is (True, <project>/dist) if and only if both the
\* configuration command and the 'pyarmor gen' command succeeded, and is
\* (False, "") with no path otherwise.
C21_EncryptionTerminalStates ==
    /\ enc_pc # "done" => enc_finished = <<>>
    /\ enc_pc = "done" =>
          /\ Len(enc_finished) = 1
          /\ enc_finished[1] \in {EncSucceededSignal, EncFailedSignal}
          /\ enc_finished[1] = EncSucceededSignal
                <=> (EncSucceeded(CfgCommand) /\ EncSucceeded(EncCommand(enc_folder)))

\* A finished run whose configuration succeeded and whose 'pyarmor gen'
\* failed after a failed removal of the old dist folder.
C21_EncryptionTerminalStatesWitness ==
    /\ enc_pc = "done"
    /\ EncSucceeded(CfgCommand)
    /\ EncCallsOf(RmCommand(enc_folder)) # {}
    /\ EncCallsOf(EncCommand(enc_folder)) # {}
    /\ ~EncSucceeded(EncCommand(enc_folder))
    /\ enc_finished = <<EncFailedSignal>>

\* The run passed Configuring: its configuration command succeeded and the
\* cleaning step is over.
PassedConfiguring == enc_pc \in {"encrypt", "done"} /\ EncSucceeded(CfgCommand)

\* C22: in every encryption run that passes Configuring, file_exists of
\* <project>/dist is asked once, after the configuration command, and
\* 'rm -rf <project>/dist' is issued if and only if the answer is true; the
\* removal is issued before the 'pyarmor gen' command and never after it; and
\* when the answer is false the run goes on to Encrypting with no command
\* run, no line logged and nothing emitted by the cleaning step.
C22_CleaningStep ==
    /\ EncCallsOf(RmCommand(enc_folder)) \subseteq {2}
    /\ EncCallsOf(EncCommand(enc_folder)) \subseteq {Len(enc_calls)}
    /\ Len(enc_checks) <= 1
    /\ EncCallsOf(RmCommand(enc_folder)) # {} => PassedConfiguring
    /\ PassedConfiguring =>
          /\ Len(enc_checks) = 1
          /\ enc_checks[1].after = 1
          /\ enc_checks[1].answer <=> EncCallsOf(RmCommand(enc_folder)) # {}
          /\ \A g \in EncCallsOf(EncCommand(enc_folder)) :
                \A k \in EncCallsOf(RmCommand(enc_folder)) : k < g
          /\ (~enc_checks[1].answer /\ enc_pc = "encrypt") =>
                /\ Len(enc_calls) = 1
                /\ enc_log = ConfigureOutcome(cut, enc_calls[1].result).log
                /\ enc_finished = <<>>

\* A finished run on a target without a dist folder: nothing was removed and
\* the 'pyarmor gen' command followed the configuration command.
C22_CleaningStepWitness ==
    /\ enc_pc = "done"
    /\ enc_checks = <<[answer |-> FALSE, after |-> 1]>>
    /\ Len(enc_calls) = 2
    /\ enc_calls[2].cmd = EncCommand(enc_folder)
    /\ ~enc_calls[2].dist_before

\* The removal was issued and did not succeed.
CleanFailed ==
    \E k \in EncCallsOf(RmCommand(enc_folder)) : ~enc_calls[k].result.success

\* C30: when <project>/dist exists and the 'rm -rf' command does not succeed,
\* the run goes on to the 'pyarmor gen' command, which is the next command it
\* issues, and its terminal result is that of a run without the failure:
\* (True, <project>/dist) when the configuration and the gen command
\* succeeded and (False, "") otherwise.
C30_FailedCleanGoesOn ==
    CleanFailed =>
        /\ enc_pc \in {"encrypt", "done"}
        /\ enc_pc = "encrypt" => enc_finished = <<>> /\ Len(enc_calls) = 2
        /\ enc_pc = "done" =>
              /\ Len(enc_calls) = 3
              /\ enc_calls[3].cmd = EncCommand(enc_folder)
              /\ enc_finished = <<IF enc_calls[3].result.success
                                  THEN EncSucceededSignal ELSE EncFailedSignal>>

\* A run that succeeded although the removal failed: the gen command was
\* issued while the old dist folder was still there.
C30_FailedCleanGoesOnWitness ==
    /\ CleanFailed
    /\ enc_pc = "done"
    /\ enc_calls[3].cmd = EncCommand(enc_folder)
    /\ enc_calls[3].dist_before
    /\ enc_finished = <<EncSucceededSignal>>


\* C28, as claimed, for the ServiceConfigWorker: a started run emits
\* finished_signal, never more than once, and the Apply button that
\* apply_changes disabled is enabled again, whatever the operations of the run
\* return, a failed write of the temporary unit file included.
C28_EveryRunFinishesAsClaimed ==
    /\ [](Len(dep_finished) <= 1)
    /\ (dep_workers # <<>>) ~> (Len(dep_finished) = 1 /\ btn_apply)

\* C28 for the run() of third_version.py, whose write goes through the
\* executor: a started run emits finished_signal exactly once and the Apply
\* button is enabled again.
C28_ThirdVersionRunFinishes ==
    /\ [](Len(dep_finished) <= 1)
    /\ (cut = ThirdVersion /\ dep_workers # <<>>)
           ~> (Len(dep_finished) = 1 /\ btn_apply)

\* C28 for the EncryptionWorker of both versions: a started run emits
\* finished_signal exactly once and the Encrypt button is enabled again.
C28_EncryptionRunFinishes ==
    /\ [](Len(enc_finished) <= 1)
    /\ (enc_workers # <<>>) ~> (Len(enc_finished) = 1 /\ btn_encrypt)

\* C28: a run() left by the exception of open() has emitted nothing, and the
\* button stays disabled.
C28_RunLeftByException ==
    dep_pc = "raised" => (dep_finished = <<>> /\ ~btn_apply)

(***************************************************************************)
(* Properties of the remote channel                                        *)
(***************************************************************************)
\* The verbs of RemoteExecutor that run a command on the target.
CommandVerbs == {"run_command", "run_sudo_command", "glob_files", "get_file_mtime"}

\* The calls of those verbs made while the connection was connected.
ConnectedCalls ==
    SelectSeq(ssh_calls, LAMBDA c : c.connected /\ c.verb \in CommandVerbs)

\* What follows the PATH prefix in a text handed to the SSH client.
AfterPrefix(text) == SubSeq(text, Len(PathPrefix) + 1, Len(text))

\* C10: every command sent over the remote channel carries the PATH prefix:
\* for every command passed to run_command or run_sudo_command, or built by
\* glob_files and get_file_mtime, the text handed to the SSH client is
\* 'export PATH="$HOME/.local/bin:$HOME/bin:/usr/local/bin:$PATH" && '
\* followed by the command text, the prefix coming before the caller's text
\* and before the 'echo <secret> | sudo -S' part of a privileged command.
C10_PathPrefixOnEveryCommand ==
    /\ Len(ssh_sent) = Len(ConnectedCalls)
    /\ \A k \in 1..Len(ssh_sent) :
          LET c == ConnectedCalls[k]
              text == ssh_sent[k].text
          IN /\ StartsWith(text,
                    "export PATH=\"$HOME/.local/bin:$HOME/bin:/usr/local/bin:$PATH\" && ")
             /\ c.verb = "run_command" => AfterPrefix(text) = c.arg
             /\ c.verb = "run_sudo_command" =>
                    AfterPrefix(text) = "echo " \o c.sudo_pass \o " | sudo -S " \o c.arg
             /\ c.verb = "glob_files" =>
                    /\ StartsWith(AfterPrefix(text), "find ")
                    /\ Contains(AfterPrefix(text), "-name '" \o Basename(c.arg) \o "'")
             /\ c.verb = "get_file_mtime" =>
                    AfterPrefix(text) = "stat -c %Y " \o c.arg \o " 2>/dev/null"

\* A privileged command that refers to environment variables and a glob were
\* both sent.
C10_PathPrefixOnEveryCommandWitness ==
    /\ Len(ssh_sent) = MaxCalls
    /\ \E k \in 1..Len(ConnectedCalls) :
          /\ ConnectedCalls[k].verb = "run_sudo_command"
          /\ Contains(ConnectedCalls[k].arg, "$")
    /\ \E k \in 1..Len(ConnectedCalls) :
          ConnectedCalls[k].verb \in {"glob_files", "get_file_mtime"}

\* The value each verb of the executor returns for a failure.
FailureValue(verb) ==
    CASE verb \in {"run_command", "run_sudo_command"} -> <<FALSE, "", "Not connected to SSH">>
      [] verb \in {"read_file", "get_file_mtime"} -> None
      [] verb \in {"write_file", "file_exists", "is_dir"} -> FALSE
      [] verb \in {"list_dir", "glob_files"} -> <<>>

\* The calls of the verbs that use the SFTP session, made while the
\* connection was connected.
ConnectedSftpCalls ==
    SelectSeq(ssh_calls, LAMBDA c : c.connected /\ c.verb \notin CommandVerbs)

\* C17: for a RemoteExecutor whose SSHConnection is not connected (never
\* connected, connect failed, or disconnected), every verb returns its
\* failure value and sends nothing: run_command and run_sudo_command return
\* (False, "", "Not connected to SSH"), read_file None, write_file False,
\* file_exists and is_dir False, list_dir and glob_files an empty list,
\* get_file_mtime None; what was sent was sent by the calls made while
\* connected.
C17_NoVerbWithoutSession ==
    /\ \A k \in 1..Len(ssh_calls) :
          ~ssh_calls[k].connected => ssh_calls[k].ret = FailureValue(ssh_calls[k].verb)
    /\ Len(ssh_sent) = Len(ConnectedCalls)
    /\ Len(sftp_sent) = Len(ConnectedSftpCalls)

\* After a connect that failed, a verb that runs a command and a verb that
\* uses the SFTP session were called, on a connection that had been connected
\* and disconnected before or not.
C17_NoVerbWithoutSessionWitness ==
    /\ ssh_client # None /\ ~ssh_connected
    /\ Len(ssh_calls) = 2
    /\ ~ssh_calls[1].connected /\ ~ssh_calls[2].connected
    /\ ssh_calls[1].verb \in CommandVerbs
    /\ ssh_calls[2].verb \notin CommandVerbs
    /\ ssh_sent = <<>> /\ sftp_sent = <<>>


\* The channels of the SSHConnection that are open: the session of the
\* SSHClient in self.client, and the SFTP session in self.sftp when it runs
\* over that session.
OpenChannels ==
    (IF ssh_client # None /\ ssh_client[1].connected THEN {"client"} ELSE {})
    \cup (IF ssh_sftp # None /\ ssh_sftp[1].session = "client" THEN {"sftp"} ELSE {})

\* The SSHConnection as __init__ and disconnect() leave it.
Disconnected ==
    /\ ssh_client = None
    /\ ssh_sftp = None
    /\ ssh_host = None
    /\ ssh_username = None
    /\ ~IsConnected

\* A step of connect() that raised.
ConnectRaised == Connect /\ ~ssh_connected'

\* C29, the part about is_connected() and disconnect(): is_connected() is
\* true only with the session of self.client open and self.sftp opened over
\* that session; every disconnect() leaves client, sftp, host and username
\* null, no channel open and is_connected() false; disconnect() on a
\* disconnected object changes nothing.
C29_ConnectedAndDisconnected ==
    /\ [](IsConnected => OpenChannels = {"client", "sftp"})
    /\ [][Disconnect => (Disconnected' /\ OpenChannels' = {})]_vars
    /\ [](Disconnected => ~ENABLED <<Disconnect>>_vars)

\* C29, as claimed: the above, and a connect() that failed leaves no channel
\* open.
C29_ConnectionInvariantAsClaimed ==
    /\ [](IsConnected => OpenChannels = {"client", "sftp"})
    /\ [][Disconnect => (Disconnected' /\ OpenChannels' = {})]_vars
    /\ [](Disconnected => ~ENABLED <<Disconnect>>_vars)
    /\ [][ConnectRaised => OpenChannels' = {}]_vars

\* C29: what a connect() that raised can leave: nothing open; or the session
\* of the new SSHClient, when open_sftp raised; is_connected() is false.
C29_AfterFailedConnect ==
    [][ConnectRaised => (~IsConnected' /\ OpenChannels' \in {{}, {"client"}})]_vars

(***************************************************************************)
(* Properties of the application                                           *)
(***************************************************************************)
\* The SSHConnection objects whose session is open.
OpenSessions ==
    {i \in 1..Len(ssh_connections) : ssh_connections[i].session = "open"}

\* The outcomes of the connection dialogs so far.
DialogOutcomes == {dialog_log[k].outcome : k \in 1..Len(dialog_log)}

\* C13: after any sequence of connection-dialog outcomes followed by
\* application close, every SSH session that was opened has been
\* disconnected; and at any time at most one session is open, namely the one
\* owned by the active RemoteExecutor.
C13_SessionsReleasedAsClaimed ==
    /\ Cardinality(OpenSessions) <= 1
    /\ \A i \in OpenSessions : executors[app_executor] = [kind |-> "remote", ssh |-> i]
    /\ app_closed => OpenSessions = {}

\* The executors that a worker which has not emitted finished_signal runs on.
BusyExecutors ==
    {enc_workers[i].executor : i \in {j \in 1..Len(enc_workers) : enc_workers[j].state = "running"}}
    \cup {dep_workers[i].executor : i \in {j \in 1..Len(dep_workers) : dep_workers[j].state = "running"}}

\* C14: while a worker run has started and has not yet emitted its
\* finished_signal, no step of the application replaces the executor of the
\* tabs, and none disconnects the SSH session the running worker uses.
C14_NoSwapMidRunAsClaimed ==
    [][BusyExecutors # {} =>
          /\ app_executor' = app_executor
          /\ enc_tab_executor' = enc_tab_executor
          /\ svc_tab_executor' = svc_tab_executor
          /\ \A e \in BusyExecutors :
                (executors[e].kind = "remote"
                    /\ ssh_connections[executors[e].ssh].session = "open")
                => ssh_connections'[executors[e].ssh].session = "open"]_vars

\* The workers of a tab that have not emitted finished_signal.
Running(workers) == {i \in 1..Len(workers) : workers[i].state = "running"}

\* The workers of a tab whose finished slot has not run.
Unhandled(workers) == {i \in 1..Len(workers) : workers[i].state # "handled"}

\* C15: for each tab, no new worker is started while the previously started
\* worker of that tab has not emitted finished_signal, so that at most one
\* worker of each kind runs; and the start button is disabled from the start
\* of a run until on_encryption_finished (on_apply_finished), nothing else
\* enabling it.
C15_OneWorkerPerTab ==
    /\ Cardinality(Running(enc_workers)) <= 1
    /\ Cardinality(Running(dep_workers)) <= 1
    /\ btn_encrypt <=> Unhandled(enc_workers) = {}
    /\ btn_apply <=> Unhandled(dep_workers) = {}

\* Both tabs run their second worker, the first of each having finished, and
\* the backend was changed meanwhile.
C15_OneWorkerPerTabWitness ==
    /\ Len(enc_workers) = 2 /\ enc_workers[1].state = "handled"
    /\ enc_workers[2].state = "running" /\ ~btn_encrypt
    /\ Len(dep_workers) = 2 /\ dep_workers[1].state = "handled"
    /\ dep_workers[2].state = "running" /\ ~btn_apply
    /\ dialog_log # <<>>

\* The step is a show_connection_dialog in which connect() raised.
FailedAttempt ==
    /\ Len(dialog_log') = Len(dialog_log) + 1
    /\ dialog_log'[Len(dialog_log')].outcome \in {"connect_failed", "sftp_failed"}

\* The connection of the active executor; 0 for a LocalExecutor.
ActiveSession == executors[app_executor].ssh

\* C16, its first two parts: a connection attempt that raises leaves the
\* executor of the application and of both tabs the object it was, and leaves
\* a previously active remote session connected.
C16_FailedAttemptKeepsBackend ==
    [][FailedAttempt =>
          /\ executors' = executors
          /\ app_executor' = app_executor
          /\ enc_tab_executor' = enc_tab_executor
          /\ svc_tab_executor' = svc_tab_executor
          /\ (ActiveSession # 0 /\ ssh_connections[ActiveSession].connected)
             => ssh_connections'[ActiveSession].connected]_vars

\* C16: if connect raises inside show_connection_dialog, the executor held by
\* the application and by both tabs is the same object as before the attempt,
\* a previously active remote session is still connected, and that session is
\* still the one that a later switch to local or closeEvent disconnects, that
\* is, the one self.ssh_connection refers to.
C16_FailedAttemptAsClaimed ==
    [][FailedAttempt =>
          /\ executors' = executors
          /\ app_executor' = app_executor
          /\ enc_tab_executor' = enc_tab_executor
          /\ svc_tab_executor' = svc_tab_executor
          /\ (ActiveSession # 0 /\ ssh_connections[ActiveSession].connected)
             => /\ ssh_connections'[ActiveSession].connected
                /\ app_ssh_connection' = Some(ActiveSession)]_vars

=============================================================================
